---- MODULE Spec2Model ----
(***************************************************************************)
(* Xenon (stevepryde/xenon): the session-lifecycle engine of a WebDriver   *)
(* proxy.  The model follows src/src/server.rs, service.rs, portmanager.rs,*)
(* state.rs, session.rs and browser.rs.                                    *)
(*                                                                         *)
(* State: the port manager, the service groups with their services and     *)
(* session sets, the sessions table, the Session objects, the tokio locks  *)
(* (state RwLock, port_manager RwLock, service_groups RwLock, one Mutex    *)
(* per session), the request handler tasks and the timeout reaper task.    *)
(* One action is one stretch of code between two suspension points.        *)
(***************************************************************************)
EXTENDS Integers, Sequences, FiniteSets, TLC

\* ------------------------------------------------------------------ bounds
\* Number of requests of one behaviour; each runs in its own handler task.
NumHandlers == 2
\* Number of ports of the configured pool.
NumPorts == 2
\* Largest max_sessions the first configured browser draws from.
MaxSessionsCfg == 2
\* Largest sessions_per_driver the first configured browser draws from.
MaxPerDriverCfg == 2
\* Session::create: failed readiness probes tolerated before the timeout.
ReadinessRetries == 30
\* Longest list of port specifiers parse_port_list is called with.
MaxSpecifiers == 2

Handlers == 1..NumHandlers
Ports == 1..NumPorts
\* Every request mints at most one XenonSessionId.
Ids == 1..NumHandlers

\* The timeout reaper task, the node-config task, and "no task" / "no id" / "no port" markers.
Reaper == 0
NoTask == -1
NodeInit == -2
NoId == 0
NoPort == 0
\* Option::None of an Option<String>.
None == "<none>"

\* ------------------------------------------------------------ browser.rs
\* str::to_lowercase on the names the model uses.
ToLowercase(s) ==
  CASE s = "Firefox" -> "firefox"
    [] s = "FIREFOX" -> "firefox"
    [] s = "Chrome" -> "chrome"
    [] s = "ANY" -> "any"
    [] s = "Any" -> "any"
    [] s = "Linux" -> "linux"
    [] OTHER -> s

\* BrowserConfig::matches_capabilities looking at the name alone.
MatchesCapabilitiesNameOnly(b, caps) == ToLowercase(b.name) = ToLowercase(caps.browser_name)

\* BrowserConfig::matches_capabilities.
MatchesCapabilities(b, caps) ==
  IF ToLowercase(b.name) # ToLowercase(caps.browser_name) THEN FALSE
  ELSE IF caps.browser_version # None /\ caps.browser_version # ""
          /\ (b.version = None \/ b.version # caps.browser_version) THEN FALSE
  ELSE IF caps.platform_name # None /\ ToLowercase(caps.platform_name) # "any"
          /\ (b.os = None \/ ToLowercase(b.os) # ToLowercase(caps.platform_name)) THEN FALSE
  ELSE TRUE

\* The configured browsers: every way to give the first entry its
\* max_sessions and sessions_per_driver; the second entry keeps
\* sessions_per_driver 1 and has room for one session.
BrowserConfigs ==
  { << [name |-> "firefox", version |-> "78", os |-> None,
        sessions_per_driver |-> spd, max_sessions |-> ms],
       [name |-> "Firefox", version |-> None, os |-> None,
        sessions_per_driver |-> 1, max_sessions |-> 1] >> :
      spd \in 0..MaxPerDriverCfg, ms \in 1..MaxSessionsCfg }

\* The capabilities a create-session request may carry.
RequestCaps ==
  { [browser_name |-> "firefox", browser_version |-> "78", platform_name |-> None],
    [browser_name |-> "FIREFOX", browser_version |-> None, platform_name |-> "any"],
    [browser_name |-> "chrome", browser_version |-> None, platform_name |-> None],
    [browser_name |-> "opera", browser_version |-> None, platform_name |-> None] }

\* The one remote node as XenonState::new builds it from the configuration,
\* with no service group seeded.
ConfiguredNodes == << [name |-> "node1", service_groups |-> << >>] >>

\* The remote nodes once the node's answer to GET /node/config is stored.
RemoteNodes ==
  << [name |-> "node1",
      service_groups |-> << [browser |-> [name |-> "chrome", version |-> None, os |-> None],
                             remaining_sessions |-> 1] >>] >>


\* ------------------------------------------------------------- variables
VARIABLES
  config,         \* the browsers of the loaded XenonConfig
  services,       \* group name -> (port -> session ids): ServiceGroup.services
  ports,          \* PortManager.ports: port -> "Available" | "Taken"
  sessions,       \* keys of XenonState.sessions
  session_obj,    \* id -> the Session behind its Arc<Mutex<..>>
  next_id,        \* the next XenonSessionId::new()
  state_readers,  \* tasks holding state.read()
  state_writer,   \* task holding state.write()
  pm_writer,      \* task holding port_manager.write()
  groups_writer,  \* task holding service_groups.write()
  mutex,          \* id -> task holding that session's Mutex
  h,              \* handler task -> its locals and position
  reaper,         \* the locals and position of process_session_timeout
  remote_nodes,   \* XenonState.remote_nodes, in insertion order
  node_init,      \* the position of process_node_init
  call            \* a call of a function on its own: arguments, position, result

vars == << config, services, ports, sessions, session_obj, next_id,
           state_readers, state_writer, pm_writer, groups_writer, mutex, h, reaper,
           remote_nodes, node_init, call >>

\* The variables of the server: all but the call of a function on its own.
server_vars == << config, services, ports, sessions, session_obj, next_id,
                  state_readers, state_writer, pm_writer, groups_writer, mutex, h, reaper,
                  remote_nodes, node_init >>

\* -------------------------------------------------------------- state.rs
\* XenonState::new: service_groups.insert(group.name(), group) for each
\* browser in order.  IndexMap::insert keeps the position of a key already
\* present and replaces its value.
RECURSIVE GroupOrderFrom(_, _, _)
GroupOrderFrom(cfg, i, acc) ==
  IF i > Len(cfg) THEN acc
  ELSE IF \E j \in 1..Len(acc) : acc[j] = cfg[i].name
       THEN GroupOrderFrom(cfg, i + 1, acc)
       ELSE GroupOrderFrom(cfg, i + 1, Append(acc, cfg[i].name))

\* Keys of service_groups, in IndexMap order.
GroupOrder(cfg) == GroupOrderFrom(cfg, 1, << >>)

GroupNames(cfg) == { cfg[i].name : i \in 1..Len(cfg) }

\* The BrowserConfig of the group stored under a name: the last one inserted.
GroupBrowser(cfg, name) ==
  LET idx == { i \in 1..Len(cfg) : cfg[i].name = name }
      last == CHOOSE i \in idx : \A j \in idx : j <= i
  IN cfg[last]

\* -------------------------------------------------------- portmanager.rs
\* lock_next_port returning a port whatever its status.
LockNextPortAnyStatus(pm) == DOMAIN pm

\* PortManager::lock_next_port: the Available ports it may return (HashMap
\* iteration order is unspecified); empty when it returns None.
LockNextPort(pm) == { p \in DOMAIN pm : pm[p] = "Available" }

\* The port manager after lock_next_port returned p.
MarkTaken(pm, p) == [pm EXCEPT ![p] = "Taken"]

\* unlock_port leaving the port as it is.
UnlockPortForgotten(pm, p) == pm

\* PortManager::unlock_port.
UnlockPort(pm, p) == IF p \in DOMAIN pm THEN [pm EXCEPT ![p] = "Available"] ELSE pm

\* ------------------------------------------------------------ service.rs
\* ServiceGroup::total_sessions: the sum of num_active_sessions().
RECURSIVE SumSessions(_, _)
SumSessions(svcs, todo) ==
  IF todo = {} THEN 0
  ELSE LET k == CHOOSE x \in todo : TRUE
       IN Cardinality(svcs[k]) + SumSessions(svcs, todo \ {k})

TotalSessions(svcs) == SumSessions(svcs, DOMAIN svcs)

\* ServiceGroup::has_capacity.
HasCapacity(b, svcs) == TotalSessions(svcs) < b.max_sessions

\* get_or_start_service's loop without its test of count >= max_sessions.
RECURSIVE ScanServicesNoFullTest(_, _, _, _, _, _)
ScanServicesNoFullTest(svcs, todo, count, best, next_port, max_sessions) ==
  IF todo = {} THEN { [full |-> FALSE, next_port |-> next_port] }
  ELSE UNION { LET n == Cardinality(svcs[k])
               IN IF n < best
                  THEN ScanServicesNoFullTest(svcs, todo \ {k}, count + n, n, k, max_sessions)
                  ELSE ScanServicesNoFullTest(svcs, todo \ {k}, count + n, best, next_port,
                                              max_sessions)
             : k \in todo }

\* get_or_start_service's loop taking any service below max_per_service.
RECURSIVE ScanServicesFirstFit(_, _, _, _, _, _)
ScanServicesFirstFit(svcs, todo, count, best, next_port, max_sessions) ==
  IF todo = {} THEN { [full |-> FALSE, next_port |-> next_port] }
  ELSE UNION { LET n == Cardinality(svcs[k])
                   c == count + n
               IN IF c >= max_sessions
                  THEN { [full |-> TRUE, next_port |-> NoPort] }
                  ELSE IF n < best
                       THEN ScanServicesFirstFit(svcs, todo \ {k}, c, best, k, max_sessions)
                       ELSE ScanServicesFirstFit(svcs, todo \ {k}, c, best, next_port,
                                                 max_sessions)
             : k \in todo }

\* The for loop of get_or_start_service over self.services.iter(), in every
\* iteration order of the HashMap: the set of its results, each either
\* full (XenonError::NoSessionsAvailable returned) or the next_port found.
RECURSIVE ScanServices(_, _, _, _, _, _)
ScanServices(svcs, todo, count, best, next_port, max_sessions) ==
  IF todo = {} THEN { [full |-> FALSE, next_port |-> next_port] }
  ELSE UNION { LET n == Cardinality(svcs[k])
                   c == count + n
               IN IF c >= max_sessions
                  THEN { [full |-> TRUE, next_port |-> NoPort] }
                  ELSE IF n < best
                       THEN ScanServices(svcs, todo \ {k}, c, n, k, max_sessions)
                       ELSE ScanServices(svcs, todo \ {k}, c, best, next_port, max_sessions)
             : k \in todo }

\* WebDriverService::spawn inserted into self.services under newport.
InsertService(svcs, p) == [q \in (DOMAIN svcs) \cup {p} |-> IF q = p THEN {} ELSE svcs[q]]

\* ServiceGroup::get_or_start_service: the set of its outcomes.  err is
\* "ok" or the XenonError returned; port is the port of the service
\* returned; svcs and pm are the group's services and the port manager
\* when it returns.  spawn_ok says whether Command::spawn succeeds.
GetOrStartService(b, svcs, pm, spawn_ok) ==
  UNION { IF r.full
          THEN { [err |-> "NoSessionsAvailable", port |-> NoPort, svcs |-> svcs, pm |-> pm] }
          ELSE IF r.next_port # NoPort
          THEN { [err |-> "ok", port |-> r.next_port, svcs |-> svcs, pm |-> pm] }
          ELSE IF LockNextPort(pm) = {}
          THEN { [err |-> "RespondWith:NoSessionsAvailable", port |-> NoPort,
                  svcs |-> svcs, pm |-> pm] }
          ELSE { IF spawn_ok
                 THEN [err |-> "ok", port |-> p, svcs |-> InsertService(svcs, p),
                       pm |-> MarkTaken(pm, p)]
                 ELSE [err |-> "IOError", port |-> NoPort, svcs |-> svcs,
                       pm |-> MarkTaken(pm, p)]
               : p \in LockNextPort(pm) }
        : r \in ScanServices(svcs, DOMAIN svcs, 0, b.sessions_per_driver, NoPort,
                             b.max_sessions) }

\* ServiceGroup::delete_session terminating the service whatever is left in
\* its session set.
DeleteSessionAlwaysTerminates(svcs, pm, p, id) ==
  IF p \in DOMAIN svcs
  THEN [svcs |-> [q \in (DOMAIN svcs) \ {p} |-> svcs[q]], pm |-> UnlockPort(pm, p)]
  ELSE [svcs |-> svcs, pm |-> pm]

\* ServiceGroup::delete_session leaving the service whatever is left in its
\* session set.
DeleteSessionKeepsService(svcs, pm, p, id) ==
  IF p \in DOMAIN svcs
  THEN [svcs |-> [svcs EXCEPT ![p] = @ \ {id}], pm |-> pm]
  ELSE [svcs |-> svcs, pm |-> pm]

\* WebDriverService::add_session on the service of a port.
AddSession(svcs, p, id) == [svcs EXCEPT ![p] = @ \cup {id}]

\* ServiceGroup::delete_session: the group's services and the port manager
\* after it.  terminate() only logs a failing kill.
DeleteSession(svcs, pm, p, id) ==
  IF p \in DOMAIN svcs
  THEN LET left == svcs[p] \ {id}
       IN IF left = {}
          THEN [svcs |-> [q \in (DOMAIN svcs) \ {p} |-> svcs[q]], pm |-> UnlockPort(pm, p)]
          ELSE [svcs |-> [svcs EXCEPT ![p] = left], pm |-> pm]
  ELSE [svcs |-> svcs, pm |-> pm]


\* ------------------------------------------------------------- server.rs
\* The loop of reserve_available_session remembering the last error.
RECURSIVE ReserveLoopLastError(_, _, _, _, _, _, _)
ReserveLoopLastError(cfg, names, svcs, pm, spawn, id, first_error) ==
  IF names = << >>
  THEN { [err |-> IF first_error = None THEN "RespondWith:NoSessionsAvailable"
                  ELSE first_error,
          group |-> None, port |-> NoPort, services |-> svcs, ports |-> pm] }
  ELSE LET g == Head(names)
       IN UNION { IF o.err = "ok"
                  THEN { [err |-> "ok", group |-> g, port |-> o.port,
                          services |-> [svcs EXCEPT ![g] = AddSession(o.svcs, o.port, id)],
                          ports |-> o.pm] }
                  ELSE ReserveLoopLastError(cfg, Tail(names), [svcs EXCEPT ![g] = o.svcs],
                                            o.pm, spawn, id, o.err)
                : o \in GetOrStartService(GroupBrowser(cfg, g), svcs[g], pm, spawn[g]) }

\* The for loop of reserve_available_session over group_names, under the
\* port_manager and service_groups write locks: the set of its outcomes.
\* spawn says, per group, whether spawning a driver succeeds there; id is
\* the XenonSessionId minted when a group succeeds.
RECURSIVE ReserveLoop(_, _, _, _, _, _, _)
ReserveLoop(cfg, names, svcs, pm, spawn, id, first_error) ==
  IF names = << >>
  THEN { [err |-> IF first_error = None THEN "RespondWith:NoSessionsAvailable"
                  ELSE first_error,
          group |-> None, port |-> NoPort, services |-> svcs, ports |-> pm] }
  ELSE LET g == Head(names)
       IN UNION { IF o.err = "ok"
                  THEN { [err |-> "ok", group |-> g, port |-> o.port,
                          services |-> [svcs EXCEPT ![g] = AddSession(o.svcs, o.port, id)],
                          ports |-> o.pm] }
                  ELSE ReserveLoop(cfg, Tail(names), [svcs EXCEPT ![g] = o.svcs], o.pm,
                                   spawn, id,
                                   IF first_error = None THEN o.err ELSE first_error)
                : o \in GetOrStartService(GroupBrowser(cfg, g), svcs[g], pm, spawn[g]) }

\* The names of the groups of a sequence of names that satisfy a predicate,
\* in order (Iterator::filter(..).collect()).
RECURSIVE FilterNames(_, _)
FilterNames(names, keep) ==
  IF names = << >> THEN << >>
  ELSE IF Head(names) \in keep THEN << Head(names) >> \o FilterNames(Tail(names), keep)
       ELSE FilterNames(Tail(names), keep)

\* reserve_available_session, the matching under service_groups.read().
MatchingGroups(cfg, caps) ==
  { g \in GroupNames(cfg) : MatchesCapabilities(GroupBrowser(cfg, g), caps) }

MatchingGroupNames(cfg, svcs, caps) ==
  FilterNames(GroupOrder(cfg),
              { g \in MatchingGroups(cfg, caps) : HasCapacity(GroupBrowser(cfg, g), svcs[g]) })

\* handle_create_session_node, the snapshot under remote_nodes.read(): the
\* nodes to try, one entry per matching group with remaining sessions.
RECURSIVE NodeDataFrom(_, _, _, _)
NodeDataFrom(nodes, caps, i, j) ==
  IF i > Len(nodes) THEN << >>
  ELSE IF j > Len(nodes[i].service_groups) THEN NodeDataFrom(nodes, caps, i + 1, 1)
  ELSE LET grp == nodes[i].service_groups[j]
       IN (IF MatchesCapabilities(grp.browser, caps) /\ grp.remaining_sessions > 0
           THEN << i >> ELSE << >>) \o NodeDataFrom(nodes, caps, i, j + 1)

NodeData(nodes, caps) == NodeDataFrom(nodes, caps, 1, 1)

MatchedCaps(nodes, caps) ==
  \E i \in 1..Len(nodes) : \E j \in 1..Len(nodes[i].service_groups) :
     MatchesCapabilities(nodes[i].service_groups[j].browser, caps)

\* handle_create_session_node returning NoMatchingBrowser whatever matched.
NodeVerdictNoMatch(matched_caps) == "RespondWith:NoMatchingBrowser"

\* handle_create_session_node: the error after the last failed attempt.
NodeVerdict(matched_caps) ==
  IF matched_caps THEN "RespondWith:NoSessionsAvailable"
  ELSE "RespondWith:NoMatchingBrowser"

\* handle_session, create branch, returning the remote error as it is.
CreateVerdictRemoteOnly(local_err, remote_err) == remote_err

\* handle_session, create branch: the error returned after the remote
\* attempt failed with remote_err, given the local verdict.
CreateVerdict(local_err, remote_err) ==
  IF local_err = "RespondWith:NoSessionsAvailable"
     /\ remote_err = "RespondWith:NoMatchingBrowser"
  THEN "RespondWith:NoSessionsAvailable"
  ELSE remote_err

\* handle: the response for a handler result.  kind is the XenonResponse
\* (or the upstream response passed on), status its HTTP status.
Respond(res) ==
  CASE res = "Created" -> [kind |-> "Upstream", status |-> 200]
    [] res = "Forwarded2xx" -> [kind |-> "Upstream", status |-> 200]
    [] res = "ForwardedNon2xx" -> [kind |-> "Upstream", status |-> 500]
    [] res = "PassThrough" -> [kind |-> "Upstream", status |-> 500]
    [] res = "RespondWith:NoMatchingBrowser" -> [kind |-> "NoMatchingBrowser", status |-> 404]
    [] res = "RespondWith:NoSessionsAvailable" -> [kind |-> "NoSessionsAvailable", status |-> 404]
    [] res = "RespondWith:SessionNotFound" -> [kind |-> "SessionNotFound", status |-> 500]
    [] res = "RespondWith:ErrorCreatingSession" -> [kind |-> "ErrorCreatingSession", status |-> 500]
    [] res = "RespondWith:MethodNotFound" -> [kind |-> "MethodNotFound", status |-> 400]
    [] OTHER -> [kind |-> "InternalServerError", status |-> 500]

\* ------------------------------------------------------------ session.rs
\* ConnectionResp as far as Xenon reads it: the status of the response and
\* the two places of the session id; NoId stands for an absent or empty id.
NoResponse == [status |-> 0, sessionId |-> NoId, value |-> [sessionId |-> NoId]]

\* The session id a WebDriver backend gives to its session.
BackendId == 77

\* The successful answers of a backend to POST /session: the id at the top
\* level or under value, with status 200 or 201.
UpstreamResponses ==
  { [status |-> 200, sessionId |-> BackendId, value |-> [sessionId |-> NoId]],
    [status |-> 201, sessionId |-> NoId, value |-> [sessionId |-> BackendId]] }

\* Session::create passing the backend's answer on as it came.
CreateResponseVerbatim(up, xsession_id) == up

\* Session::create: both session ids of the parsed answer are replaced by
\* Xenon's id and the response is rebuilt with the status of the answer.
CreateResponse(up, xsession_id) ==
  [status |-> up.status, sessionId |-> xsession_id, value |-> [sessionId |-> xsession_id]]

\* ------------------------------------------------------------------ tasks
\* The capabilities of a request that is no create-session request.
NoCaps == [browser_name |-> None, browser_version |-> None, platform_name |-> None]

IdleHandler ==
  [pc |-> "idle", id |-> NoId, port |-> NoPort, group |-> None, caps |-> NoCaps,
   cand |-> << >>, matched |-> FALSE, del |-> FALSE, verdict |-> None, res |-> None,
   upstream |-> NoResponse, resp |-> NoResponse]

\* A Session never created: the placeholder of an id.
NoSession == [service_group |-> None, port |-> NoPort, expired |-> FALSE, created |-> FALSE]

\* No function is called on its own.
NoCall == [fn |-> None, done |-> FALSE]

SleepingReaper == [pc |-> "r_sleep", todo |-> {}, timedout |-> {}, cur |-> NoId, rx |-> FALSE]

\* The server after XenonState::new and the spawning of its two tasks.
ServerInit ==
  /\ config \in BrowserConfigs
  /\ services = [g \in GroupNames(config) |-> << >>]
  /\ ports = [p \in Ports |-> "Available"]
  /\ sessions = {}
  /\ session_obj = [i \in Ids |-> NoSession]
  /\ next_id = 1
  /\ state_readers = {}
  /\ state_writer = NoTask
  /\ pm_writer = NoTask
  /\ groups_writer = NoTask
  /\ mutex = [i \in Ids |-> NoTask]
  /\ h = [t \in Handlers |-> IdleHandler]
  /\ reaper = SleepingReaper
  /\ remote_nodes = ConfiguredNodes
  /\ node_init = [pc |-> "i_fetch"]

Init == ServerInit /\ call = NoCall

\* The state RwLock can be read-locked / write-locked now.
CanReadState == state_writer = NoTask
CanWriteState == state_writer = NoTask /\ state_readers = {}

\* The guard a handler holds on state.read() goes out of scope.
DropStateReadForgotten(t) == state_readers

DropStateRead(t) == state_readers \ {t}

\* tokio::join!(port_manager.write(), service_groups.write()) can complete
\* now.  A handler's critical section under the two locks has no
\* suspension point, so it is one step; only the reaper is seen holding
\* them, while it waits for a session's mutex.
CanWritePair == pm_writer = NoTask /\ groups_writer = NoTask

\* Requests arrive at the handler tasks in the order of their numbers.
CanStart(t) == h[t].pc = "idle" /\ \A u \in DOMAIN h : u < t => h[u].pc # "idle"

\* A handler returns: its response is decided by res.
Finish(t, res) ==
  [h[t] EXCEPT !.pc = "done", !.res = res, !.cand = << >>, !.matched = FALSE, !.verdict = None]

\* ------------------------------------------- handle_session: POST /session
\* A create-session request arrives.  reserve_available_session takes
\* state.read() and does the capability matching under
\* service_groups.read(), released at the end of the block.  The early
\* returns drop state.read(); handle_session then goes on to
\* handle_create_session_node.
ReserveMatch(t, caps) ==
  /\ CanStart(t)
  /\ CanReadState
  /\ groups_writer = NoTask
  /\ LET names == MatchingGroupNames(config, services, caps)
         me == [IdleHandler EXCEPT !.caps = caps]
     IN IF MatchingGroups(config, caps) = {}
        THEN /\ h' = [h EXCEPT ![t] = [me EXCEPT !.pc = "n_snapshot",
                                          !.verdict = "RespondWith:NoMatchingBrowser"]]
             /\ UNCHANGED state_readers
        ELSE IF names = << >>
        THEN /\ h' = [h EXCEPT ![t] = [me EXCEPT !.pc = "n_snapshot",
                                          !.verdict = "RespondWith:NoSessionsAvailable"]]
             /\ UNCHANGED state_readers
        ELSE /\ h' = [h EXCEPT ![t] = [me EXCEPT !.pc = "c_pair", !.cand = names]]
             /\ state_readers' = state_readers \cup {t}
  /\ UNCHANGED << config, call, remote_nodes, node_init, services, ports, sessions, session_obj, next_id, state_writer,
                  pm_writer, groups_writer, mutex, reaper >>

\* reserve_available_session: the loop over group_names under both write
\* locks, then the return, which drops the locks and state.read(): what it
\* does to the groups, the port manager, the id source and the task.
ReserveEffects(t) ==
  /\ \E spawn \in [GroupNames(config) -> BOOLEAN] :
       \E o \in ReserveLoop(config, h[t].cand, services, ports, spawn, next_id, None) :
          /\ services' = o.services
          /\ ports' = o.ports
          /\ IF o.err = "ok"
             THEN /\ next_id' = next_id + 1
                  /\ h' = [h EXCEPT ![t].pc = "c_create", ![t].id = next_id,
                                    ![t].port = o.port, ![t].group = o.group,
                                    ![t].cand = << >>]
             ELSE /\ next_id' = next_id
                  /\ h' = [h EXCEPT ![t] =
                             IF o.err = "RespondWith:NoSessionsAvailable"
                             THEN [h[t] EXCEPT !.pc = "n_snapshot", !.verdict = o.err,
                                               !.cand = << >>]
                             ELSE Finish(t, o.err)]
  /\ state_readers' = DropStateRead(t)

\* reserve_available_session from the joint acquisition of the two write
\* locks to its return.
Reserve(t) ==
  /\ h[t].pc = "c_pair"
  /\ CanWritePair
  /\ ReserveEffects(t)
  /\ UNCHANGED << config, call, remote_nodes, node_init, sessions, session_obj, state_writer, pm_writer, groups_writer,
                  mutex, reaper >>

\* handle_create_session: Session::create against localhost:port returns,
\* with no lock held.  out is "ok" or the error: ResponsePassThrough (the
\* backend answered non-2xx), RequestError (transport), or RespondWith
\* ErrorCreatingSession (readiness timeout, unreadable body).
SessionCreateOutcomes ==
  {"ok", "ResponsePassThrough", "RequestError", "RespondWith:ErrorCreatingSession"}

SessionCreated(t, out) ==
  /\ h[t].pc = "c_create"
  /\ out \in SessionCreateOutcomes
  /\ IF out = "ok"
     THEN /\ session_obj' = [session_obj EXCEPT ![h[t].id] =
                               [service_group |-> h[t].group, port |-> h[t].port,
                                expired |-> FALSE, created |-> TRUE]]
          /\ \E up \in UpstreamResponses :
                h' = [h EXCEPT ![t].pc = "c_add", ![t].upstream = up,
                                ![t].resp = CreateResponse(up, h[t].id)]
     ELSE /\ h' = [h EXCEPT ![t].pc = "c_rollback", ![t].res = out]
          /\ UNCHANGED session_obj
  /\ UNCHANGED << config, call, remote_nodes, node_init, services, ports, sessions, next_id, state_readers, state_writer,
                  pm_writer, groups_writer, mutex, reaper >>

\* handle_create_session and handle_create_session_node, Ok branch:
\* state.write().await; s.add_session.
AddSessionToPool(t) ==
  /\ h[t].pc \in {"c_add", "n_add"}
  /\ CanWriteState
  /\ sessions' = sessions \cup {h[t].id}
  /\ h' = [h EXCEPT ![t] = Finish(t, "Created")]
  /\ UNCHANGED << config, call, remote_nodes, node_init, services, ports, session_obj, next_id, state_readers, state_writer,
                  pm_writer, groups_writer, mutex, reaper >>

\* handle_create_session's Err branches returning without the rollback.
RollbackSkipped(svcs_all, pm, g, p, id) == [services |-> svcs_all, ports |-> pm]

\* The rollback of handle_create_session's Err branches on the group named
\* group_name.
RollbackReservation(svcs_all, pm, g, p, id) ==
  IF g \in DOMAIN svcs_all
  THEN LET d == DeleteSession(svcs_all[g], pm, p, id)
       IN [services |-> [svcs_all EXCEPT ![g] = d.svcs], ports |-> d.pm]
  ELSE [services |-> svcs_all, ports |-> pm]

\* handle_create_session, Err branches: group.delete_session under both
\* write locks, then the return: Ok(response) for a pass-through, Err(e)
\* otherwise.
RollbackEffects(t) ==
  /\ LET r == RollbackReservation(services, ports, h[t].group, h[t].port, h[t].id)
     IN /\ services' = r.services
        /\ ports' = r.ports
  /\ h' = [h EXCEPT ![t] = Finish(t, IF h[t].res = "ResponsePassThrough" THEN "PassThrough"
                                     ELSE h[t].res)]

\* handle_create_session, Err branches: state.read(), then the rollback
\* under both write locks, then the return, which drops every guard.
Rollback(t) ==
  /\ h[t].pc = "c_rollback"
  /\ CanReadState
  /\ CanWritePair
  /\ RollbackEffects(t)
  /\ UNCHANGED << config, call, remote_nodes, node_init, sessions, session_obj, next_id, state_readers, state_writer,
                  pm_writer, groups_writer, mutex, reaper >>

\* handle_create_session_node: the snapshot of the remote nodes under
\* state.read() and remote_nodes.read(), both released at the end of the
\* block, and XenonSessionId::new(); with no node to try it returns.
NodeSnapshot(t) ==
  /\ h[t].pc = "n_snapshot"
  /\ CanReadState
  /\ LET data == NodeData(remote_nodes, h[t].caps)
         matched_caps == MatchedCaps(remote_nodes, h[t].caps)
     IN h' = [h EXCEPT ![t] =
                IF data = << >>
                THEN [Finish(t, CreateVerdict(h[t].verdict, NodeVerdict(matched_caps)))
                        EXCEPT !.id = next_id]
                ELSE [h[t] EXCEPT !.pc = "n_create", !.id = next_id, !.cand = data,
                                  !.matched = matched_caps]]
  /\ next_id' = next_id + 1
  /\ UNCHANGED << config, call, remote_nodes, node_init, services, ports, sessions, session_obj, state_readers,
                  state_writer, pm_writer, groups_writer, mutex, reaper >>

\* handle_create_session_node: Session::create against the next node
\* returns, with no lock held; after the last failure the function returns.
NodeSessionCreated(t, ok) ==
  /\ h[t].pc = "n_create"
  /\ IF ok
     THEN /\ session_obj' = [session_obj EXCEPT ![h[t].id] =
                               [service_group |-> None, port |-> NoPort,
                                expired |-> FALSE, created |-> TRUE]]
          /\ \E up \in UpstreamResponses :
                h' = [h EXCEPT ![t].pc = "n_add", ![t].cand = << >>, ![t].upstream = up,
                                ![t].resp = CreateResponse(up, h[t].id)]
     ELSE /\ UNCHANGED session_obj
          /\ h' = [h EXCEPT ![t] =
                     IF Tail(h[t].cand) = << >>
                     THEN Finish(t, CreateVerdict(h[t].verdict, NodeVerdict(h[t].matched)))
                     ELSE [h[t] EXCEPT !.cand = Tail(h[t].cand)]]
  /\ UNCHANGED << config, call, remote_nodes, node_init, services, ports, sessions, next_id, state_readers, state_writer,
                  pm_writer, groups_writer, mutex, reaper >>

\* ------------------------------------ handle_session: /session/{id}/...
\* Ids a client can name: minted, and not in the hands of a create request.
Nameable == { i \in DOMAIN mutex : i < next_id /\ \A u \in DOMAIN h :
                 ~(h[u].id = i /\ h[u].pc \in {"c_create", "c_add", "c_rollback",
                                               "n_create", "n_add"}) }

\* XenonState::get_session: Some for an id in the table.
GetSessionAlwaysSome(id) == TRUE

GetSession(id) == id \in sessions

\* A request for /session/{id}/... arrives; del says it is a terminal
\* delete (DELETE /session/{id}).  handle_session: s.get_session under
\* state.read(), released at the end of the block.
LookupSession(t, id, del) ==
  /\ CanStart(t)
  /\ id \in Nameable
  /\ CanReadState
  /\ LET me == [IdleHandler EXCEPT !.id = id, !.del = del]
     IN h' = [h EXCEPT ![t] = IF GetSession(id)
                              THEN [me EXCEPT !.pc = "f_mutex"]
                              ELSE [me EXCEPT !.pc = "done",
                                              !.res = "RespondWith:SessionNotFound"]]
  /\ UNCHANGED << config, call, remote_nodes, node_init, services, ports, sessions, session_obj, next_id, state_readers,
                  state_writer, pm_writer, groups_writer, mutex, reaper >>

\* Mutex::lock on a session's mutex returns only when nobody holds it.
MutexNeverHeld(id) == TRUE

MutexFree(id) == mutex[id] = NoTask

\* handle_session: mutex_session.lock().await, then forward_request sets
\* last_timestamp and sends the request.
LockSession(t) ==
  /\ h[t].pc = "f_mutex"
  /\ MutexFree(h[t].id)
  /\ mutex' = [mutex EXCEPT ![h[t].id] = t]
  /\ session_obj' = [session_obj EXCEPT ![h[t].id].expired = FALSE]
  /\ h' = [h EXCEPT ![t].pc = "f_http"]
  /\ UNCHANGED << config, call, remote_nodes, node_init, services, ports, sessions, next_id, state_readers, state_writer,
                  pm_writer, groups_writer, reaper >>

ForwardOutcomes == {"2xx", "non2xx", "error"}

\* The WebDriver session behind an id can still answer: a remote node's
\* session, or a local one whose driver has not been killed by
\* WebDriverService::terminate and still counts the id.
BackendAlive(id) ==
  LET s == session_obj[id]
  IN \/ s.service_group = None
     \/ /\ s.service_group \in DOMAIN services
        /\ s.port \in DOMAIN services[s.service_group]
        /\ id \in services[s.service_group][s.port]

\* handle_session: the backend's answer to forward_request arrives; only a
\* live backend answers with success.  A
\* transport error returns Err(RequestError); a terminal delete answered
\* with success goes on to the teardown, still holding the session's mutex.
Forwarded(t, out) ==
  /\ h[t].pc = "f_http"
  /\ out \in ForwardOutcomes
  /\ out = "2xx" => BackendAlive(h[t].id)
  /\ IF out = "2xx" /\ h[t].del
     THEN /\ h' = [h EXCEPT ![t].pc = "d_state_write"]
          /\ UNCHANGED mutex
     ELSE /\ h' = [h EXCEPT ![t] = Finish(t, CASE out = "2xx" -> "Forwarded2xx"
                                               [] out = "non2xx" -> "ForwardedNon2xx"
                                               [] OTHER -> "RequestError")]
          /\ mutex' = [mutex EXCEPT ![h[t].id] = NoTask]
  /\ UNCHANGED << config, call, remote_nodes, node_init, services, ports, sessions, session_obj, next_id, state_readers,
                  state_writer, pm_writer, groups_writer, reaper >>

\* handle_session, terminal delete: s.delete_session under state.write(),
\* released at the end of the block; a remote session then returns.
DeleteFromPool(t) ==
  /\ h[t].pc = "d_state_write"
  /\ CanWriteState
  /\ sessions' = sessions \ {h[t].id}
  /\ IF session_obj[h[t].id].service_group # None
     THEN /\ h' = [h EXCEPT ![t].pc = "d_teardown"]
          /\ UNCHANGED mutex
     ELSE /\ h' = [h EXCEPT ![t] = Finish(t, "Forwarded2xx")]
          /\ mutex' = [mutex EXCEPT ![h[t].id] = NoTask]
  /\ UNCHANGED << config, call, remote_nodes, node_init, services, ports, session_obj, next_id, state_readers, state_writer,
                  pm_writer, groups_writer, reaper >>

\* The teardown of a session, one without a group giving back every port.
TeardownSessionRemoteFreesPorts(svcs_all, pm, session, id) ==
  LET g == session.service_group
  IN IF g # None /\ g \in DOMAIN svcs_all
     THEN LET d == DeleteSession(svcs_all[g], pm, session.port, id)
          IN [services |-> [svcs_all EXCEPT ![g] = d.svcs], ports |-> d.pm]
     ELSE [services |-> svcs_all, ports |-> [p \in DOMAIN pm |-> "Available"]]

\* The teardown of a session in the group its Session names: used by the
\* terminal delete and by the reaper.
TeardownSession(svcs_all, pm, session, id) ==
  LET g == session.service_group
  IN IF g # None /\ g \in DOMAIN svcs_all
     THEN LET d == DeleteSession(svcs_all[g], pm, session.port, id)
          IN [services |-> [svcs_all EXCEPT ![g] = d.svcs], ports |-> d.pm]
     ELSE [services |-> svcs_all, ports |-> pm]

\* handle_session, terminal delete of a local session:
\* group.delete_session under both write locks, then the return, which
\* drops the session's mutex guard.
TeardownEffects(t) ==
  /\ LET r == TeardownSession(services, ports, session_obj[h[t].id], h[t].id)
     IN /\ services' = r.services
        /\ ports' = r.ports
  /\ h' = [h EXCEPT ![t] = Finish(t, "Forwarded2xx")]
  /\ mutex' = [mutex EXCEPT ![h[t].id] = NoTask]

\* handle_session, terminal delete of a local session: state.read(), then
\* the teardown under both write locks, then the return, which drops every
\* guard.
Teardown(t) ==
  /\ h[t].pc = "d_teardown"
  /\ CanReadState
  /\ CanWritePair
  /\ TeardownEffects(t)
  /\ UNCHANGED << config, call, remote_nodes, node_init, sessions, session_obj, next_id, state_readers, state_writer,
                  pm_writer, groups_writer, reaper >>

\* ------------------------------------------------ process_session_timeout
\* More than 1800 s pass since a session's last request.
SessionExpires(id) ==
  /\ id \in sessions
  /\ ~session_obj[id].expired
  /\ session_obj' = [session_obj EXCEPT ![id].expired = TRUE]
  /\ UNCHANGED << config, call, remote_nodes, node_init, services, ports, sessions, next_id, state_readers, state_writer,
                  pm_writer, groups_writer, mutex, h, reaper >>

\* The reaper after get_timeout_sessions looked at the last session:
\* state.read() is dropped, and with nothing timed out the task sleeps.
AfterScan(timedout) ==
  [pc |-> IF timedout = {} THEN "r_sleep" ELSE "r_state_write",
   todo |-> {}, timedout |-> timedout, cur |-> NoId, rx |-> reaper.rx]

\* The loop wakes up: state.read().await, and get_timeout_sessions starts
\* iterating over self.sessions.
ReaperScanBegin ==
  /\ reaper.pc = "r_sleep"
  /\ ~ reaper.rx
  /\ CanReadState
  /\ IF sessions = {}
     THEN UNCHANGED << reaper, state_readers >>
     ELSE /\ state_readers' = state_readers \cup {Reaper}
          /\ reaper' = [reaper EXCEPT !.pc = "r_scan", !.todo = sessions]
  /\ UNCHANGED << config, call, remote_nodes, node_init, services, ports, sessions, session_obj, next_id, state_writer,
                  pm_writer, groups_writer, mutex, h >>

\* get_timeout_sessions: mutex_session.lock().await on the next session
\* (HashMap order), the test of its idle time, and the guard's drop; after
\* the last session the function returns.
ReaperScanSession(id) ==
  /\ reaper.pc = "r_scan"
  /\ id \in reaper.todo
  /\ mutex[id] = NoTask
  /\ LET timedout == IF session_obj[id].expired THEN reaper.timedout \cup {id}
                     ELSE reaper.timedout
     IN IF reaper.todo = {id}
        THEN /\ reaper' = AfterScan(timedout)
             /\ state_readers' = state_readers \ {Reaper}
        ELSE /\ reaper' = [reaper EXCEPT !.todo = @ \ {id}, !.timedout = timedout]
             /\ UNCHANGED state_readers
  /\ UNCHANGED << config, call, remote_nodes, node_init, services, ports, sessions, session_obj, next_id, state_writer,
                  pm_writer, groups_writer, mutex, h >>

\* let mut s = state.write().await, then both write locks.
ReaperStateWrite ==
  /\ reaper.pc = "r_state_write"
  /\ CanWriteState
  /\ CanWritePair
  /\ state_writer' = Reaper
  /\ pm_writer' = Reaper
  /\ groups_writer' = Reaper
  /\ reaper' = [reaper EXCEPT !.pc = "r_remove"]
  /\ UNCHANGED << config, call, remote_nodes, node_init, services, ports, sessions, session_obj, next_id, state_readers,
                  mutex, h >>

\* The reaper when the removal loop is through the ids left: every guard
\* is dropped and the task sleeps 60 s.
ReaperReleases(left) == left = {}

\* The removal loop takes the next timed-out id: s.delete_session, which
\* yields the session's Arc when the id is still in the table.
ReaperRemove(id) ==
  /\ reaper.pc = "r_remove"
  /\ reaper.cur = NoId
  /\ id \in reaper.timedout
  /\ sessions' = sessions \ {id}
  /\ IF id \notin sessions /\ ReaperReleases(reaper.timedout \ {id})
     THEN /\ reaper' = [SleepingReaper EXCEPT !.rx = reaper.rx]
          /\ state_writer' = NoTask
          /\ pm_writer' = NoTask
          /\ groups_writer' = NoTask
     ELSE /\ reaper' = [reaper EXCEPT !.timedout = @ \ {id},
                                      !.cur = IF id \in sessions THEN id ELSE NoId]
          /\ UNCHANGED << state_writer, pm_writer, groups_writer >>
  /\ UNCHANGED << config, call, remote_nodes, node_init, services, ports, session_obj, next_id, state_readers, mutex, h >>

\* The removal loop: mutex_session.lock().await on the removed session,
\* group.delete_session for a local one, and the guard's drop; after the
\* last id every guard is dropped and the task sleeps 60 s.
ReaperDeleteSession ==
  /\ reaper.pc = "r_remove"
  /\ reaper.cur # NoId
  /\ mutex[reaper.cur] = NoTask
  /\ LET r == TeardownSession(services, ports, session_obj[reaper.cur], reaper.cur)
     IN /\ services' = r.services
        /\ ports' = r.ports
  /\ IF ReaperReleases(reaper.timedout)
     THEN /\ reaper' = [SleepingReaper EXCEPT !.rx = reaper.rx]
          /\ state_writer' = NoTask
          /\ pm_writer' = NoTask
          /\ groups_writer' = NoTask
     ELSE /\ reaper' = [reaper EXCEPT !.cur = NoId]
          /\ UNCHANGED << state_writer, pm_writer, groups_writer >>
  /\ UNCHANGED << config, call, remote_nodes, node_init, sessions, session_obj, next_id, state_readers, mutex, h >>

\* ------------------------------------------------------- the specification
\* ------------------------------------------------------ process_node_init
\* process_node_init: client.get(/node/config) of the node returns, with no
\* lock held.  A body that parses is followed by state.write().await; any
\* failure leaves the node for the next round, 60 s later.
NodeInitFetched(ok) ==
  /\ node_init.pc = "i_fetch"
  /\ IF ok
     THEN /\ CanWriteState
          /\ state_writer' = NodeInit
          /\ node_init' = [node_init EXCEPT !.pc = "i_write"]
     ELSE /\ UNCHANGED state_writer
          /\ node_init' = [node_init EXCEPT !.pc = "i_sleep"]
  /\ UNCHANGED << config, call, remote_nodes, services, ports, sessions, session_obj, next_id,
                  state_readers, pm_writer, groups_writer, mutex, h, reaper >>

\* process_node_init dropping the node without storing what it fetched.
NodeInitUpdateNothingStored ==
  /\ node_init.pc = "i_write"
  /\ state_writer' = NoTask
  /\ node_init' = [node_init EXCEPT !.pc = "i_done"]
  /\ UNCHANGED << config, call, remote_nodes, services, ports, sessions, session_obj, next_id,
                  state_readers, pm_writer, groups_writer, mutex, h, reaper >>

\* process_node_init: under state.write() and remote_nodes.write() the
\* node's service_groups become the fetched ones; both guards are dropped
\* at the end of the match arm and the node leaves nodes_remaining.
NodeInitUpdate ==
  /\ node_init.pc = "i_write"
  /\ remote_nodes' = RemoteNodes
  /\ state_writer' = NoTask
  /\ node_init' = [node_init EXCEPT !.pc = "i_done"]
  /\ UNCHANGED << config, call, services, ports, sessions, session_obj, next_id,
                  state_readers, pm_writer, groups_writer, mutex, h, reaper >>

\* process_node_init: delay_for(60 s) ends and the next round starts.
NodeInitWake ==
  /\ node_init.pc = "i_sleep"
  /\ node_init' = [node_init EXCEPT !.pc = "i_fetch"]
  /\ UNCHANGED << config, call, remote_nodes, services, ports, sessions, session_obj, next_id,
                  state_readers, state_writer, pm_writer, groups_writer, mutex, h, reaper >>

Next ==
  \/ \E t \in DOMAIN h : \E caps \in RequestCaps : ReserveMatch(t, caps)
  \/ \E t \in DOMAIN h : Reserve(t)
  \/ \E t \in DOMAIN h : \E out \in SessionCreateOutcomes : SessionCreated(t, out)
  \/ \E t \in DOMAIN h : AddSessionToPool(t)
  \/ \E t \in DOMAIN h : Rollback(t)
  \/ \E t \in DOMAIN h : NodeSnapshot(t)
  \/ \E t \in DOMAIN h : \E ok \in BOOLEAN : NodeSessionCreated(t, ok)
  \/ \E t \in DOMAIN h : \E id \in DOMAIN mutex : \E del \in BOOLEAN : LookupSession(t, id, del)
  \/ \E t \in DOMAIN h : LockSession(t)
  \/ \E t \in DOMAIN h : \E out \in ForwardOutcomes : Forwarded(t, out)
  \/ \E t \in DOMAIN h : DeleteFromPool(t)
  \/ \E t \in DOMAIN h : Teardown(t)
  \/ \E id \in DOMAIN mutex : SessionExpires(id)
  \/ ReaperScanBegin
  \/ \E id \in DOMAIN mutex : ReaperScanSession(id)
  \/ ReaperStateWrite
  \/ \E id \in DOMAIN mutex : ReaperRemove(id)
  \/ ReaperDeleteSession
  \/ \E ok \in BOOLEAN : NodeInitFetched(ok)
  \/ NodeInitUpdate
  \/ NodeInitWake

Spec == Init /\ [][Next]_vars

\* ------------------------------------------------- tokio::join!, by future
\* tokio::join!(port_manager.write(), service_groups.write()) awaits two
\* acquisitions of its own: each poll of the join polls port_manager.write()
\* and then service_groups.write(), and on the multi-threaded runtime the
\* polls of another task fall between the two.  The actions below replace
\* Reserve, Rollback, Teardown and ReaperStateWrite by steps that take one
\* lock each.

\* The positions at which a handler awaits the pair.
JoinPcs == {"c_pair", "c_rollback", "d_teardown"}

\* handle_create_session's Err branches and the terminal delete:
\* let s = state.read().await, kept until the return.
JoinStateRead(t) ==
  /\ h[t].pc \in {"c_rollback", "d_teardown"}
  /\ t \notin state_readers
  /\ CanReadState
  /\ state_readers' = state_readers \cup {t}
  /\ UNCHANGED << config, call, remote_nodes, node_init, services, ports, sessions, session_obj, next_id, state_writer,
                  pm_writer, groups_writer, mutex, h, reaper >>

\* The join's first future, port_manager.write(), gets the lock.
JoinPortManager(t) ==
  /\ h[t].pc \in JoinPcs
  /\ t \in state_readers
  /\ pm_writer = NoTask
  /\ pm_writer' = t
  /\ UNCHANGED << config, call, remote_nodes, node_init, services, ports, sessions, session_obj, next_id, state_readers,
                  state_writer, groups_writer, mutex, h, reaper >>

\* The join's second future, service_groups.write(), gets the lock.  It
\* is polled after the first one, which by then has got port_manager or
\* found it held.
JoinServiceGroups(t) ==
  /\ h[t].pc \in JoinPcs
  /\ t \in state_readers
  /\ pm_writer # NoTask
  /\ groups_writer = NoTask
  /\ groups_writer' = t
  /\ UNCHANGED << config, call, remote_nodes, node_init, services, ports, sessions, session_obj, next_id, state_readers,
                  state_writer, pm_writer, mutex, h, reaper >>

\* reserve_available_session with both guards in hand, to its return.
ReserveJoined(t) ==
  /\ h[t].pc = "c_pair"
  /\ pm_writer = t /\ groups_writer = t
  /\ ReserveEffects(t)
  /\ pm_writer' = NoTask /\ groups_writer' = NoTask
  /\ UNCHANGED << config, call, remote_nodes, node_init, sessions, session_obj, state_writer, mutex, reaper >>

\* handle_create_session's rollback with both guards in hand, to its return.
RollbackJoined(t) ==
  /\ h[t].pc = "c_rollback"
  /\ pm_writer = t /\ groups_writer = t
  /\ RollbackEffects(t)
  /\ pm_writer' = NoTask /\ groups_writer' = NoTask
  /\ state_readers' = DropStateRead(t)
  /\ UNCHANGED << config, call, remote_nodes, node_init, sessions, session_obj, next_id, state_writer, mutex, reaper >>

\* The terminal delete's teardown with both guards in hand, to its return.
TeardownJoined(t) ==
  /\ h[t].pc = "d_teardown"
  /\ pm_writer = t /\ groups_writer = t
  /\ TeardownEffects(t)
  /\ pm_writer' = NoTask /\ groups_writer' = NoTask
  /\ state_readers' = DropStateRead(t)
  /\ UNCHANGED << config, call, remote_nodes, node_init, sessions, session_obj, next_id, state_writer, reaper >>

\* process_session_timeout: let mut s = state.write().await.
ReaperStateWriteOnly ==
  /\ reaper.pc = "r_state_write"
  /\ CanWriteState
  /\ state_writer' = Reaper
  /\ reaper' = [reaper EXCEPT !.pc = "r_join"]
  /\ UNCHANGED << config, call, remote_nodes, node_init, services, ports, sessions, session_obj, next_id, state_readers,
                  pm_writer, groups_writer, mutex, h >>

\* process_session_timeout: the join's first future gets port_manager.
ReaperJoinPortManager ==
  /\ reaper.pc = "r_join"
  /\ pm_writer = NoTask
  /\ pm_writer' = Reaper
  /\ reaper' = [reaper EXCEPT !.pc = IF groups_writer = Reaper THEN "r_remove" ELSE "r_join"]
  /\ UNCHANGED << config, call, remote_nodes, node_init, services, ports, sessions, session_obj, next_id, state_readers,
                  state_writer, groups_writer, mutex, h >>

\* process_session_timeout: the join's second future gets service_groups.
ReaperJoinServiceGroups ==
  /\ reaper.pc = "r_join"
  /\ pm_writer # NoTask
  /\ groups_writer = NoTask
  /\ groups_writer' = Reaper
  /\ reaper' = [reaper EXCEPT !.pc = IF pm_writer = Reaper THEN "r_remove" ELSE "r_join"]
  /\ UNCHANGED << config, call, remote_nodes, node_init, services, ports, sessions, session_obj, next_id, state_readers,
                  state_writer, pm_writer, mutex, h >>

JoinNext ==
  \/ \E t \in DOMAIN h : \E caps \in RequestCaps : ReserveMatch(t, caps)
  \/ \E t \in DOMAIN h : JoinStateRead(t)
  \/ \E t \in DOMAIN h : JoinPortManager(t)
  \/ \E t \in DOMAIN h : JoinServiceGroups(t)
  \/ \E t \in DOMAIN h : ReserveJoined(t)
  \/ \E t \in DOMAIN h : RollbackJoined(t)
  \/ \E t \in DOMAIN h : TeardownJoined(t)
  \/ \E t \in DOMAIN h : \E out \in SessionCreateOutcomes : SessionCreated(t, out)
  \/ \E t \in DOMAIN h : AddSessionToPool(t)
  \/ \E t \in DOMAIN h : NodeSnapshot(t)
  \/ \E t \in DOMAIN h : \E ok \in BOOLEAN : NodeSessionCreated(t, ok)
  \/ \E t \in DOMAIN h : \E id \in DOMAIN mutex : \E del \in BOOLEAN : LookupSession(t, id, del)
  \/ \E t \in DOMAIN h : LockSession(t)
  \/ \E t \in DOMAIN h : \E out \in ForwardOutcomes : Forwarded(t, out)
  \/ \E t \in DOMAIN h : DeleteFromPool(t)
  \/ \E id \in DOMAIN mutex : SessionExpires(id)
  \/ ReaperScanBegin
  \/ \E id \in DOMAIN mutex : ReaperScanSession(id)
  \/ ReaperStateWriteOnly
  \/ ReaperJoinPortManager
  \/ ReaperJoinServiceGroups
  \/ \E id \in DOMAIN mutex : ReaperRemove(id)
  \/ ReaperDeleteSession
  \/ \E ok \in BOOLEAN : NodeInitFetched(ok)
  \/ NodeInitUpdate
  \/ NodeInitWake

\* The program with the pair taken lock by lock.
JoinSpec == Init /\ [][JoinNext]_vars

\* ------------------------------------------------ functions on their own
\* The browsers and capabilities matches_capabilities is called with.
MatchCalls ==
  { [fn |-> "matches_capabilities", done |-> FALSE, out |-> FALSE,
     browser |-> [name |-> n, version |-> v, os |-> o],
     caps |-> [browser_name |-> cn, browser_version |-> cv, platform_name |-> cp]] :
    n \in {"firefox", "Firefox", "chrome"}, v \in {None, "78", "79"},
    o \in {None, "linux", "Linux", "windows"},
    cn \in {"firefox", "FIREFOX", "chrome"}, cv \in {None, "", "78", "79"},
    cp \in {None, "any", "ANY", "linux", "Linux", "windows"} }

\* BrowserConfig::matches_capabilities returns.
CallMatchesCapabilities ==
  /\ call.fn = "matches_capabilities"
  /\ ~ call.done
  /\ call' = [call EXCEPT !.done = TRUE,
                          !.out = MatchesCapabilities(call.browser, call.caps)]
  /\ UNCHANGED server_vars

\* parse_port_list: a specifier is its text split at every '-', each part
\* either a run of digits with its value or something else; str::parse::<u16>
\* accepts the runs of digits up to 65535.  splitn(2, '-') leaves everything
\* after the first '-' in the second part, so a third part makes it unparsable.
RECURSIVE ParsePortList(_)
ParsePortList(port_ranges) ==
  IF port_ranges = << >> THEN << >>
  ELSE LET range == port_ranges[Len(port_ranges)]
           Parses(part) == part.digits /\ part.val <= 65535
           pushed ==
             IF Len(range) = 1
             THEN IF Parses(range[1]) THEN << range[1].val >> ELSE << >>
             ELSE IF ~ Parses(range[1]) THEN << >>
             ELSE IF Len(range) > 2 \/ ~ Parses(range[2]) THEN << >>
             ELSE LET start == range[1].val
                      end == range[2].val
                  IN IF start <= 1024 \/ end <= 1024 THEN << >>
                     ELSE IF end < start THEN << >>
                     ELSE [ i \in 1..(end - start + 1) |-> start + i - 1 ]
       IN ParsePortList(SubSeq(port_ranges, 1, Len(port_ranges) - 1)) \o pushed

\* The lists of specifiers parse_port_list is called with.
ParseCalls ==
  LET Parts == { [digits |-> FALSE, val |-> 0] } \cup
               { [digits |-> TRUE, val |-> v] : v \in {80, 1024, 1025, 1026, 70000} }
      Ranges == { << a >> : a \in Parts } \cup { << a, b >> : a \in Parts, b \in Parts }
                \cup { << a, b, c >> : a, b, c \in { p \in Parts : p.val \in {1025, 1026} } }
      Lists == UNION { [ 1..n -> Ranges ] : n \in 0..MaxSpecifiers }
  IN { [fn |-> "parse_port_list", done |-> FALSE, out |-> << >>, port_ranges |-> l] :
       l \in Lists }

\* parse_port_list returns.
CallParsePortList ==
  /\ call.fn = "parse_port_list"
  /\ ~ call.done
  /\ call' = [call EXCEPT !.done = TRUE, !.out = ParsePortList(call.port_ranges)]
  /\ UNCHANGED server_vars

\* parse_url: the text parsed as a hyper Uri; the scheme defaults to http and
\* the authority to localhost:8888 when the Uri carries none; an empty text
\* is no Uri.
ParseUrl(url) ==
  CASE url = "http://a:1" -> [ok |-> TRUE, scheme |-> "http", authority |-> "a:1"]
    [] url = "https://b:2" -> [ok |-> TRUE, scheme |-> "https", authority |-> "b:2"]
    [] url = "/hub" -> [ok |-> TRUE, scheme |-> "http", authority |-> "localhost:8888"]
    [] OTHER -> [ok |-> FALSE, scheme |-> None, authority |-> None]

\* RemoteNode::update with the comms_id test left out.
RemoteNodeUpdateAlways(self, node) ==
  IF ~ ParseUrl(node.url).ok THEN self
  ELSE [self EXCEPT !.scheme = ParseUrl(node.url).scheme,
                    !.authority = ParseUrl(node.url).authority,
                    !.name = node.name,
                    !.service_groups = node.service_groups,
                    !.comms_id = node.comms_id]

\* RemoteNode::update: the node after the call.  Only a more recent update
\* applies; one whose url does not parse returns early and changes nothing.
RemoteNodeUpdate(self, node) ==
  IF node.comms_id > self.comms_id
  THEN IF ~ ParseUrl(node.url).ok THEN self
       ELSE [self EXCEPT !.scheme = ParseUrl(node.url).scheme,
                         !.authority = ParseUrl(node.url).authority,
                         !.name = node.name,
                         !.service_groups = node.service_groups,
                         !.comms_id = node.comms_id]
  ELSE self

\* A stored node and the two updates applied to it.
UpdateCalls ==
  LET Updates == { [comms_id |-> c, name |-> n, url |-> u, service_groups |-> g,
                    scheme |-> "http", authority |-> "localhost:8888"] :
                   c \in 1..3, n \in {"n1", "n2"},
                   u \in {"http://a:1", "https://b:2", "/hub", ""},
                   g \in { << 1 >>, << 2 >> } }
      Stored == { [comms_id |-> c, name |-> "n0", url |-> "http://a:1",
                   service_groups |-> << 0 >>, scheme |-> "http", authority |-> "a:1"] :
                  c \in 0..1 }
  IN { [fn |-> "update", done |-> FALSE, node |-> s, a |-> ua, b |-> ub,
        after_a |-> s, a_then_b |-> s, b_then_a |-> s] :
       s \in Stored, ua \in Updates, ub \in Updates }

\* Update a applied to the stored node, and the two updates applied to it in
\* one order and in the other.
CallUpdate ==
  /\ call.fn = "update"
  /\ ~ call.done
  /\ call' = [call EXCEPT
                !.done = TRUE,
                !.after_a = RemoteNodeUpdate(call.node, call.a),
                !.a_then_b = RemoteNodeUpdate(RemoteNodeUpdate(call.node, call.a), call.b),
                !.b_then_a = RemoteNodeUpdate(RemoteNodeUpdate(call.node, call.b), call.a)]
  /\ UNCHANGED server_vars

\* The ticks of the clock a forwarded request may come after.
MaxIdleTicks == 2

\* The trailing paths and the queries of the forwarded requests.
Endpoints == { << >>, << "url" >>, << "element", "e1" >> }

Queries == { None, "a=1" }

\* Session::create and forward_request on their own.  The handshake answer
\* the backend will give is fixed from the start; what each readiness probe
\* meets is chosen when it is sent.
CreateCalls ==
  { [fn |-> "create", done |-> FALSE, pc |-> "probe", count |-> 0, probes |-> 0,
     posts |-> 0, err |-> None, session_id |-> "", path_and_query |-> << >>,
     now |-> 0, last_timestamp |-> 0, sent |-> None,
     resp |-> [status |-> st, session_id |-> top, value |-> [session_id |-> val]]] :
    st \in {200, 500}, top \in {"", "s1", "s2"}, val \in {"", "s1", "s2"} }

\* Session::create, one turn of the readiness loop: GET /status is sent;
\* a success answer breaks out of the loop, anything else adds one to count,
\* returns the timeout error when count is over the retries, and sleeps 1 s
\* otherwise.
CallCreateProbe(ok) ==
  /\ call.fn = "create"
  /\ call.pc = "probe"
  /\ call' = IF ok
             THEN [call EXCEPT !.probes = @ + 1, !.pc = "handshake"]
             ELSE IF call.count + 1 > ReadinessRetries
             THEN [call EXCEPT !.probes = @ + 1, !.count = @ + 1, !.pc = "returned",
                               !.done = TRUE,
                               !.err = "ErrorCreatingSession:Timed out waiting for WebDriver"]
             ELSE [call EXCEPT !.probes = @ + 1, !.count = @ + 1]
  /\ UNCHANGED server_vars

\* Session::create after the loop: POST /session is sent and answered by
\* resp; a status that is no success is passed through; otherwise the
\* session keeps the top-level sessionId unless it is empty, and
\* value.sessionId then.
CallCreateHandshake ==
  /\ call.fn = "create"
  /\ call.pc = "handshake"
  /\ call' = IF call.resp.status # 200
             THEN [call EXCEPT !.posts = @ + 1, !.pc = "returned", !.done = TRUE,
                               !.err = "ResponsePassThrough"]
             ELSE [call EXCEPT !.posts = @ + 1, !.pc = "created",
                               !.session_id = IF call.resp.session_id = ""
                                              THEN call.resp.value.session_id
                                              ELSE call.resp.session_id]
  /\ UNCHANGED server_vars

\* Time passes between the session's creation, which set last_timestamp,
\* and the request.
CallTimePasses ==
  /\ call.fn = "create"
  /\ call.pc = "created"
  /\ call.now < MaxIdleTicks
  /\ call' = [call EXCEPT !.now = @ + 1]
  /\ UNCHANGED server_vars

\* forward_request's path: /session/{session_id}, the endpoint after a "/"
\* when it is not empty, the query after a "?" when the request has one.
PathAndQuery(session_id, endpoint, query) ==
  << "session", session_id >> \o endpoint
     \o (IF query = None THEN << >> ELSE << "?", query >>)

\* forward_request that leaves last_timestamp to the backend's answer.
CallForwardRequestStampOnSuccess(endpoint, query, sent) ==
  /\ call.fn = "create"
  /\ call.pc = "created"
  /\ call' = [call EXCEPT !.pc = "returned", !.done = TRUE, !.sent = sent,
                          !.last_timestamp = IF sent = "ok" THEN call.now ELSE @,
                          !.path_and_query = PathAndQuery(call.session_id, endpoint, query)]
  /\ UNCHANGED server_vars

\* Session::forward_request on the created session: last_timestamp is set
\* first, the path is built, and the request is sent; the client answers or
\* fails with RequestError.
CallForwardRequest(endpoint, query, sent) ==
  /\ call.fn = "create"
  /\ call.pc = "created"
  /\ call' = [call EXCEPT !.pc = "returned", !.done = TRUE, !.sent = sent,
                          !.last_timestamp = call.now,
                          !.err = IF sent = "ok" THEN @ ELSE "RequestError",
                          !.path_and_query = PathAndQuery(call.session_id, endpoint, query)]
  /\ UNCHANGED server_vars

\* The groups get_or_start_service is called on: services on some of three
\* ports with up to two sessions each, their ports Taken, any other port
\* Available or Taken.
GetOrStartCalls ==
  LET P == {1, 2, 3}
      Sessions(p) == { {}, {10 * p + 1}, {10 * p + 1, 10 * p + 2} }
      Svcs == UNION { { f \in [S -> UNION { Sessions(p) : p \in S }] :
                          \A p \in S : f[p] \in Sessions(p) } : S \in SUBSET {1, 2} }
  IN UNION { { [fn |-> "get_or_start_service", done |-> FALSE, out |-> {},
                 browser |-> [sessions_per_driver |-> spd, max_sessions |-> ms],
                 svcs |-> f, pm |-> pm, spawn_ok |-> ok] :
                spd \in 0..3, ms \in 1..4, ok \in BOOLEAN,
                pm \in { q \in [P -> {"Available", "Taken"}] :
                           \A p \in DOMAIN f : q[p] = "Taken" } } : f \in Svcs }

\* ServiceGroup::get_or_start_service returns: out is the set of outcomes
\* over the iteration orders of the HashMaps.
CallGetOrStartService ==
  /\ call.fn = "get_or_start_service"
  /\ ~ call.done
  /\ call' = [call EXCEPT !.done = TRUE,
                          !.out = GetOrStartService(call.browser, call.svcs, call.pm,
                                                    call.spawn_ok)]
  /\ UNCHANGED server_vars

\* The groups delete_session is called on, with a port and a session id;
\* kill_ok says whether killing the child succeeds.
DeleteCalls ==
  LET P == {1, 2, 3}
      Sessions(p) == { {}, {10 * p + 1}, {10 * p + 1, 10 * p + 2} }
      Svcs == UNION { { f \in [S -> UNION { Sessions(p) : p \in S }] :
                          \A p \in S : f[p] \in Sessions(p) } : S \in SUBSET {1, 2} }
  IN UNION { { [fn |-> "delete_session", done |-> FALSE, svcs |-> f, pm |-> pm,
                 port |-> port, id |-> id, kill_ok |-> ok,
                 out |-> [svcs |-> f, pm |-> pm], events |-> << >>] :
                port \in P, id \in {11, 12, 21, 99}, ok \in BOOLEAN,
                pm \in { q \in [P -> {"Available", "Taken"}] :
                           \A p \in DOMAIN f : q[p] = "Taken" } } : f \in Svcs }

\* ServiceGroup::delete_session returns.  events are the calls it made on
\* the way: terminate(), whose kill succeeds or is logged, and then
\* unlock_port.
CallDeleteSession ==
  /\ call.fn = "delete_session"
  /\ ~ call.done
  /\ LET should_terminate == /\ call.port \in DOMAIN call.svcs
                             /\ call.svcs[call.port] \ {call.id} = {}
     IN call' = [call EXCEPT
                   !.done = TRUE,
                   !.out = DeleteSession(call.svcs, call.pm, call.port, call.id),
                   !.events = IF should_terminate
                              THEN << IF call.kill_ok THEN "kill" ELSE "kill failed",
                                      "unlock_port" >>
                              ELSE << >>]
  /\ UNCHANGED server_vars

\* handle_create_session_node on its own: two remote nodes with up to two
\* service groups each, the capabilities asked for, and what Session::create
\* meets at each node.
NodeCalls ==
  LET Groups == { [browser |-> [name |-> n, version |-> None, os |-> None],
                   remaining_sessions |-> r] :
                  n \in {"chrome", "firefox"}, r \in {0, 1} }
      GroupSeqs == { << >> } \cup { << g >> : g \in Groups }
                   \cup { << g1, g2 >> : g1 \in Groups, g2 \in Groups }
  IN { [fn |-> "handle_create_session_node", done |-> FALSE,
        nodes |-> << [name |-> "node1", service_groups |-> s1],
                     [name |-> "node2", service_groups |-> s2] >>,
        caps |-> [browser_name |-> "chrome", browser_version |-> None,
                  platform_name |-> None],
        create |-> << c1, c2 >>, sessions |-> {1}, xsession_id |-> 2,
        tried |-> << >>, err |-> None] :
       s1 \in GroupSeqs, s2 \in GroupSeqs,
       c1 \in {"ok", "ResponsePassThrough"}, c2 \in {"ok", "RequestError"} }

\* handle_create_session_node returns: the snapshot, then Session::create
\* at each entry of node_data in turn until one is Ok, whose session is
\* added to the table; with none, the error chosen by matched_caps.
CallCreateSessionNode ==
  /\ call.fn = "handle_create_session_node"
  /\ ~ call.done
  /\ LET node_data == NodeData(call.nodes, call.caps)
         oks == { k \in DOMAIN node_data : call.create[node_data[k]] = "ok" }
         first == IF oks = {} THEN 0 ELSE CHOOSE k \in oks : \A m \in oks : k <= m
     IN call' = IF first = 0
                THEN [call EXCEPT !.done = TRUE, !.tried = node_data,
                                  !.err = NodeVerdict(MatchedCaps(call.nodes, call.caps))]
                ELSE [call EXCEPT !.done = TRUE, !.tried = SubSeq(node_data, 1, first),
                                  !.sessions = @ \cup {call.xsession_id}]
  /\ UNCHANGED server_vars

\* The configurations XenonState::new is called with: two browser entries,
\* of one name or of two.
StateNewCalls ==
  { [fn |-> "state_new", done |-> FALSE, group_order |-> << >>, groups |-> << >>,
     config |-> << [name |-> n1, version |-> "78", os |-> None,
                    sessions_per_driver |-> 1, max_sessions |-> m1],
                   [name |-> n2, version |-> v2, os |-> None,
                    sessions_per_driver |-> 1, max_sessions |-> m2] >>] :
    n1 \in {"firefox", "chrome"}, n2 \in {"firefox", "chrome"}, v2 \in {"78", "79"},
    m1 \in 1..MaxSessionsCfg, m2 \in 1..MaxSessionsCfg }

\* XenonState::new returns: the keys of service_groups in IndexMap order and
\* the BrowserConfig of the group under each key.
CallStateNew ==
  /\ call.fn = "state_new"
  /\ ~ call.done
  /\ call' = [call EXCEPT
                !.done = TRUE,
                !.group_order = GroupOrder(call.config),
                !.groups = [g \in GroupNames(call.config) |-> GroupBrowser(call.config, g)]]
  /\ UNCHANGED server_vars


\* The server before its first request, and one function called on its own.
CallInit ==
  /\ ServerInit
  /\ config[1].sessions_per_driver = 1 /\ config[1].max_sessions = 1
  /\ \/ call \in MatchCalls
     \/ call \in ParseCalls
     \/ call \in UpdateCalls
     \/ call \in CreateCalls
     \/ call \in GetOrStartCalls
     \/ call \in DeleteCalls
     \/ call \in NodeCalls
     \/ call \in StateNewCalls

CallNext ==
  \/ CallMatchesCapabilities
  \/ CallParsePortList
  \/ CallUpdate
  \/ \E ok \in BOOLEAN : CallCreateProbe(ok)
  \/ CallCreateHandshake
  \/ CallTimePasses
  \/ \E endpoint \in Endpoints, query \in Queries, sent \in {"ok", "failed"} :
        CallForwardRequest(endpoint, query, sent)
  \/ CallGetOrStartService
  \/ CallDeleteSession
  \/ CallCreateSessionNode
  \/ CallStateNew

CallSpec == CallInit /\ [][CallNext]_vars

\* ================================================================ properties
\* The handler tasks that returned with a given result.
DoneWith(res) == { t \in DOMAIN h : h[t].pc = "done" /\ h[t].res = res }

\* The ids held by the services of a group.
GroupIds(g) == UNION { services[g][p] : p \in DOMAIN services[g] }

\* C1: in every reachable state the number of session ids held by the
\* services of a service group is at most that group's max_sessions.
C1_GroupWithinMaxSessions ==
  \A g \in DOMAIN services :
     TotalSessions(services[g]) <= GroupBrowser(config, g).max_sessions

\* A group is full, and a create request that had passed has_capacity
\* together with another one was turned away by get_or_start_service.
C1_Witness ==
  /\ \E g \in DOMAIN services :
        TotalSessions(services[g]) = GroupBrowser(config, g).max_sessions
  /\ DoneWith("NoSessionsAvailable") # {}

\* C2: in every reachable state each WebDriverService holds at most
\* sessions_per_driver session ids, whatever value is configured.
C2_ServiceWithinSessionsPerDriver ==
  \A g \in DOMAIN services : \A p \in DOMAIN services[g] :
     Cardinality(services[g][p]) <= GroupBrowser(config, g).sessions_per_driver

\* C3: whenever no task holds the port_manager / service_groups write
\* locks, a port is Taken exactly when some service of some group is keyed
\* by it.
C3_TakenIffServiceKeyed ==
  (pm_writer = NoTask /\ groups_writer = NoTask) =>
     \A p \in DOMAIN ports :
        ports[p] = "Taken" <=> \E g \in DOMAIN services : p \in DOMAIN services[g]

\* C4: when get_or_start_service locked a new port and the spawn failed, the
\* error reaches the caller and every port that was Available before the
\* call is Available when reserve_available_session returns that error.
C4_SpawnFailureReleasesPort ==
  [][\A t \in DOMAIN h :
       (h[t].pc = "c_pair" /\ h'[t].pc = "done" /\ h'[t].res = "IOError") =>
          \A p \in DOMAIN ports : ports[p] = "Available" => ports'[p] = "Available"]_vars

\* C5: every id in the sessions table is a remote session, or a local one
\* whose group exists and has a service on the session's port that holds
\* the id.
C5_TableIdsBacked ==
  \A id \in sessions :
     LET s == session_obj[id]
     IN \/ s.service_group = None
        \/ /\ s.service_group \in DOMAIN services
           /\ s.port \in DOMAIN services[s.service_group]
           /\ id \in services[s.service_group][s.port]

\* A local session is in the table and held by its service after another
\* session of the same service was created and removed again.
C5_Witness ==
  \E id \in sessions : \E gone \in (DOMAIN session_obj) \ sessions :
     /\ session_obj[id].service_group # None
     /\ session_obj[gone].created
     /\ session_obj[gone].service_group = session_obj[id].service_group
     /\ session_obj[gone].port = session_obj[id].port
     /\ id \in GroupIds(session_obj[id].service_group)
     /\ gone \notin GroupIds(session_obj[id].service_group)
     /\ \A t \in DOMAIN h : h[t].pc = "done"

\* The capabilities of the requests of C6: they match the group "firefox"
\* and no other group, and no remote node offers that browser.
Firefox78 == [browser_name |-> "firefox", browser_version |-> "78", platform_name |-> None]

\* The results of a request that met a failing driver or backend.
UnhealthyResults ==
  {"IOError", "PassThrough", "RequestError", "RespondWith:ErrorCreatingSession"}

\* C6: more create requests than max_sessions, all matching one group, met
\* healthy backends and no session timed out; when all have returned,
\* exactly max_sessions of them succeeded, with pairwise distinct ids and
\* ports, and every other one got the NoSessionsAvailable response, 404.
C6_ExactlyMaxSucceed ==
  LET b == GroupBrowser(config, "firefox")
      ok == DoneWith("Created")
  IN (/\ Cardinality(DOMAIN h) > b.max_sessions
      /\ \A t \in DOMAIN h : h[t].pc = "done" /\ h[t].caps = Firefox78
                               /\ h[t].res \notin UnhealthyResults
      /\ \A i \in DOMAIN session_obj : ~session_obj[i].expired)
     => /\ Cardinality(ok) = b.max_sessions
        /\ \A t \in ok : \A u \in ok \ {t} : h[t].id # h[u].id /\ h[t].port # h[u].port
        /\ \A t \in (DOMAIN h) \ ok :
              Respond(h[t].res) = [kind |-> "NoSessionsAvailable", status |-> 404]

\* C7: when Session::create failed, the handler's rollback removes the
\* reserved id from its service's session set, leaves the sessions table as
\* it is, removes a service left empty and makes its port Available, and
\* keeps the other sessions of a service that is not; a non-2xx answer of
\* the backend is what the client receives, any other error is returned.
C7_RollbackRestores ==
  [][\A t \in DOMAIN h :
       (h[t].pc = "c_rollback" /\ h'[t].pc = "done") =>
          LET g == h[t].group
              p == h[t].port
              id == h[t].id
          IN /\ p \in DOMAIN services[g] /\ id \in services[g][p]
             /\ \A q \in DOMAIN services'[g] : id \notin services'[g][q]
             /\ sessions' = sessions /\ id \notin sessions'
             /\ IF services[g][p] = {id}
                THEN p \notin DOMAIN services'[g] /\ ports'[p] = "Available"
                ELSE p \in DOMAIN services'[g] /\ services'[g][p] = services[g][p] \ {id}
             /\ IF h[t].res = "ResponsePassThrough"
                THEN h'[t].res = "PassThrough" /\ Respond(h'[t].res).kind = "Upstream"
                ELSE h'[t].res = h[t].res /\ Respond(h'[t].res).kind # "Upstream"]_vars

\* A create request whose backend answered non-2xx has returned: its id is
\* in no service and not in the table, its service is gone and the port it
\* had reserved is Available.
C7_Witness ==
  \E t \in DoneWith("PassThrough") :
     /\ h[t].id # NoId
     /\ h[t].id \notin sessions
     /\ h[t].id \notin GroupIds(h[t].group)
     /\ h[t].port \notin DOMAIN services[h[t].group]
     /\ ports[h[t].port] = "Available"

HoldsContainerLock(task) ==
  \/ task \in state_readers
  \/ state_writer = task
  \/ pm_writer = task
  \/ groups_writer = task

\* C9: no task waits for or acquires a session's mutex while it holds a
\* container lock: not a forwarding handler, not the reaper in its timeout
\* scan, not the reaper in its removal loop.
C9_NoMutexUnderContainerLock ==
  /\ \A t \in DOMAIN h : h[t].pc = "f_mutex" => ~HoldsContainerLock(t)
  /\ reaper.pc = "r_scan" => ~HoldsContainerLock(Reaper)
  /\ (reaper.pc = "r_remove" /\ reaper.cur # NoId) => ~HoldsContainerLock(Reaper)

\* A handler that holds a session's mutex and waits for the state lock,
\* which the reaper holds.
HandlerWaitsForReaper(t, id) ==
  /\ mutex[id] = t
  /\ \/ h[t].pc = "d_state_write" /\ (state_writer = Reaper \/ Reaper \in state_readers)
     \/ h[t].pc = "d_teardown" /\ state_writer = Reaper

\* The reaper waits for a session's mutex that a handler holds.
ReaperWaitsFor(id) ==
  \/ reaper.pc = "r_remove" /\ reaper.cur = id
  \/ reaper.pc = "r_scan" /\ id \in reaper.todo
                          /\ \A j \in reaper.todo : mutex[j] # NoTask

\* C10: the lock order is respected, so no cycle of tasks waiting on each
\* other's locks is reachable: never does a terminal delete handler hold a
\* session's mutex and wait for the state lock while the reaper holds the
\* state lock and waits for that mutex.
C10_NoWaitCycle ==
  ~ \E t \in DOMAIN h : \E id \in DOMAIN mutex :
       HandlerWaitsForReaper(t, id) /\ ReaperWaitsFor(id)

\* C11: the two write locks are obtained in one joint step: no state is
\* reachable in which one task holds port_manager and waits for
\* service_groups while another task holds service_groups and waits for
\* port_manager.
C11_NoCrossedPair ==
  ~ \E a \in (DOMAIN h) \cup {Reaper} : \E b \in (DOMAIN h) \cup {Reaper} :
       a # b /\ pm_writer = a /\ groups_writer = b

\* The positions at which a handler is in an HTTP round-trip: the readiness
\* probe and handshake of Session::create (local, remote), a forwarded
\* request.
RoundTripPcs == {"c_create", "n_create", "f_http"}

\* C12: a task in an HTTP round-trip (readiness probe, handshake, forwarded
\* request, node-config fetch) holds none of the container locks.
C12_NoLockDuringRoundTrip ==
  /\ \A t \in DOMAIN h : h[t].pc \in RoundTripPcs => ~ HoldsContainerLock(t)
  /\ node_init.pc = "i_fetch" => ~ HoldsContainerLock(NodeInit)

\* A forwarded request is in flight while the node-config fetch is, and the
\* reaper holds the state lock.
C12_Witness ==
  /\ \E t \in DOMAIN h : h[t].pc = "f_http"
  /\ node_init.pc = "i_fetch"
  /\ state_writer = Reaper

\* ------------------------------------------------ a pool with two sessions
\* The server after two create-session requests for firefox 78 were
\* answered with success, on a configuration of two sessions with one
\* session per driver; two more requests are to come.
PoolHandlers == 1..(NumHandlers + 2)

PoolServerInit ==
  /\ config \in { c \in BrowserConfigs :
                     c[1].sessions_per_driver = 1 /\ c[1].max_sessions = 2 }
  /\ services = [g \in GroupNames(config) |->
                   IF g = "firefox" THEN [p \in {1, 2} |-> {p}] ELSE << >>]
  /\ ports = [p \in Ports |-> IF p \in {1, 2} THEN "Taken" ELSE "Available"]
  /\ sessions = {1, 2}
  /\ session_obj = [i \in PoolHandlers |->
                      IF i \in {1, 2}
                      THEN [service_group |-> "firefox", port |-> i,
                            expired |-> FALSE, created |-> TRUE]
                      ELSE NoSession]
  /\ next_id = 3
  /\ state_readers = {}
  /\ state_writer = NoTask
  /\ pm_writer = NoTask
  /\ groups_writer = NoTask
  /\ mutex = [i \in PoolHandlers |-> NoTask]
  /\ h = [t \in PoolHandlers |->
            IF t \in {1, 2}
            THEN LET up == [status |-> 200, sessionId |-> BackendId,
                                   value |-> [sessionId |-> NoId]]
                 IN [IdleHandler EXCEPT !.pc = "done", !.res = "Created", !.id = t,
                                        !.port = t, !.group = "firefox", !.caps = Firefox78,
                                        !.upstream = up, !.resp = CreateResponse(up, t)]
            ELSE IdleHandler]
  /\ reaper = SleepingReaper
  /\ remote_nodes = ConfiguredNodes
  /\ node_init = [pc |-> "i_fetch"]

PoolInit == PoolServerInit /\ call = NoCall

PoolSpec == PoolInit /\ [][Next]_vars

\* ------------------------------------------------------------- routing
\* handle_session without the removal of /wd/hub.
HandleSessionNoStrip(method, path, selenium_compatibility) ==
  LET Id(s) == CASE s = "1" -> 1 [] s = "2" -> 2 [] OTHER -> NoId
  IN IF Len(path) = 1
     THEN [kind |-> IF method = "POST" THEN "create" ELSE "MethodNotFound",
           id |-> NoId, is_delete |-> FALSE, remaining_path |-> << >>]
     ELSE [kind |-> "forward", id |-> Id(path[2]),
           is_delete |-> Len(path) = 2 /\ path[1] = "session" /\ method = "DELETE",
           remaining_path |-> SubSeq(path, 3, Len(path))]

\* handle_session taking every DELETE of a session path for a terminal one.
HandleSessionDeleteAnyLength(method, path, selenium_compatibility) ==
  LET Id(s) == CASE s = "1" -> 1 [] s = "2" -> 2 [] OTHER -> NoId
      path_elements ==
        IF selenium_compatibility /\ Len(path) > 2 /\ path[1] = "wd" /\ path[2] = "hub"
        THEN SubSeq(path, 3, Len(path)) ELSE path
  IN IF Len(path_elements) = 1
     THEN [kind |-> IF method = "POST" THEN "create" ELSE "MethodNotFound",
           id |-> NoId, is_delete |-> FALSE, remaining_path |-> << >>]
     ELSE [kind |-> "forward", id |-> Id(path_elements[2]),
           is_delete |-> path_elements[1] = "session" /\ method = "DELETE",
           remaining_path |-> SubSeq(path_elements, 3, Len(path_elements))]

\* handle_session up to the choice of what to do: path is the request's
\* path split at '/', Id the XenonSessionId a segment stands for.  With
\* selenium_compatibility a leading wd/hub is split off; one segment left
\* is a create-session request when the method is POST; otherwise the
\* second segment names the session, and a DELETE of exactly
\* session/{id} is the terminal delete.
HandleSession(method, path, selenium_compatibility) ==
  LET Id(s) == CASE s = "1" -> 1 [] s = "2" -> 2 [] OTHER -> NoId
      path_elements ==
        IF selenium_compatibility /\ Len(path) > 2 /\ path[1] = "wd" /\ path[2] = "hub"
        THEN SubSeq(path, 3, Len(path)) ELSE path
  IN IF Len(path_elements) = 1
     THEN [kind |-> IF method = "POST" THEN "create" ELSE "MethodNotFound",
           id |-> NoId, is_delete |-> FALSE, remaining_path |-> << >>]
     ELSE [kind |-> "forward", id |-> Id(path_elements[2]),
           is_delete |-> Len(path_elements) = 2 /\ path_elements[1] = "session"
                         /\ method = "DELETE",
           remaining_path |-> SubSeq(path_elements, 3, Len(path_elements))]

\* The requests the handlers of one behaviour receive: a method and a path.
RouteCalls ==
  { [fn |-> "handle", done |-> FALSE, method |-> m, path |-> p] :
    m \in {"GET", "POST", "DELETE"},
    p \in { << "session" >>, << "wd", "hub", "session" >>,
            << "session", "1" >>, << "wd", "hub", "session", "1" >>,
            << "session", "1", "url" >>, << "wd", "hub", "session", "1", "url" >>,
            << "wd", "hub", "x", "1" >> } }

\* handle: the request of the behaviour arrives at a handler task; the
\* top-level segment wd turns selenium_compatibility on, and handle_session
\* goes on to create a session, to forward to one, or returns
\* MethodNotFound.
HandleRequest(t) ==
  LET r == HandleSession(call.method, call.path, call.path[1] = "wd")
  IN \/ r.kind = "create" /\ \E caps \in RequestCaps : ReserveMatch(t, caps)
     \/ r.kind = "forward" /\ LookupSession(t, r.id, r.is_delete)
     \/ /\ r.kind = "MethodNotFound"
        /\ CanStart(t)
        /\ h' = [h EXCEPT ![t] = Finish(t, "RespondWith:MethodNotFound")]
        /\ UNCHANGED << config, call, remote_nodes, node_init, services, ports, sessions,
                        session_obj, next_id, state_readers, state_writer, pm_writer,
                        groups_writer, mutex, reaper >>

RouteInit == PoolServerInit /\ call \in RouteCalls

RouteNext ==
  \/ \E t \in DOMAIN h : HandleRequest(t)
  \/ \E t \in DOMAIN h : Reserve(t)
  \/ \E t \in DOMAIN h : \E out \in SessionCreateOutcomes : SessionCreated(t, out)
  \/ \E t \in DOMAIN h : AddSessionToPool(t)
  \/ \E t \in DOMAIN h : Rollback(t)
  \/ \E t \in DOMAIN h : NodeSnapshot(t)
  \/ \E t \in DOMAIN h : \E ok \in BOOLEAN : NodeSessionCreated(t, ok)
  \/ \E t \in DOMAIN h : LockSession(t)
  \/ \E t \in DOMAIN h : \E out \in ForwardOutcomes : Forwarded(t, out)
  \/ \E t \in DOMAIN h : DeleteFromPool(t)
  \/ \E t \in DOMAIN h : Teardown(t)
  \/ \E id \in DOMAIN mutex : SessionExpires(id)
  \/ ReaperScanBegin
  \/ \E id \in DOMAIN mutex : ReaperScanSession(id)
  \/ ReaperStateWrite
  \/ \E id \in DOMAIN mutex : ReaperRemove(id)
  \/ ReaperDeleteSession
  \/ \E ok \in BOOLEAN : NodeInitFetched(ok)
  \/ NodeInitUpdate
  \/ NodeInitWake

RouteSpec == RouteInit /\ [][RouteNext]_vars

\* C13: at most one forwarded request is in flight on a session at any
\* time, however many handlers have a request for it.
C13_OneRequestInFlight ==
  \A t \in DOMAIN h : \A u \in DOMAIN h :
     (h[t].pc = "f_http" /\ h[u].pc = "f_http" /\ h[t].id = h[u].id) => t = u

\* A request is in flight on a session while another handler's request for
\* the same session waits for the session's mutex.
C13_Witness ==
  \E t \in DOMAIN h : \E u \in DOMAIN h :
     h[t].pc = "f_http" /\ h[u].pc = "f_mutex" /\ h[t].id = h[u].id

\* C14: an unfinished round-trip of a session A never prevents a request
\* for another registered session B from being looked up and forwarded:
\* never is state.write() held by the reaper that waits for the mutex of A,
\* held by the handler in A's round-trip, while B is in the table (the
\* lookup of B needs state.read()).
C14_RoundTripNeverBlocksOthers ==
  ~ \E t \in DOMAIN h : \E b \in sessions :
       /\ h[t].pc = "f_http" /\ mutex[h[t].id] = t
       /\ b # h[t].id
       /\ ~ CanReadState
       /\ state_writer = Reaper /\ reaper.pc = "r_remove" /\ reaper.cur = h[t].id

\* ------------------------------------------------------ fair scheduling
\* The runtime runs every spawned task that can take a step: the reaper,
\* the node-config task and every handler whose request has arrived (a
\* backend answers every request sent to it).  Requests arrive as clients
\* please.
FairPoolSpec ==
  /\ PoolSpec
  /\ WF_vars(\/ ReaperScanBegin
             \/ \E id \in DOMAIN mutex : ReaperScanSession(id)
             \/ ReaperStateWrite
             \/ \E id \in DOMAIN mutex : ReaperRemove(id)
             \/ ReaperDeleteSession)
  /\ WF_vars(\/ \E ok \in BOOLEAN : NodeInitFetched(ok)
             \/ NodeInitUpdate
             \/ NodeInitWake)
  /\ \A t \in PoolHandlers :
       WF_vars(\/ Reserve(t)
               \/ \E out \in SessionCreateOutcomes : SessionCreated(t, out)
               \/ AddSessionToPool(t)
               \/ Rollback(t)
               \/ NodeSnapshot(t)
               \/ \E ok \in BOOLEAN : NodeSessionCreated(t, ok)
               \/ LockSession(t)
               \/ \E out \in ForwardOutcomes : Forwarded(t, out)
               \/ DeleteFromPool(t)
               \/ Teardown(t))

\* A request for the session id has arrived and is not answered yet.
RequestPending(id) ==
  \E t \in DOMAIN h :
     h[t].id = id /\ h[t].pc \in {"f_mutex", "f_http", "d_state_write", "d_teardown"}

\* C15: a session idle for more than 1800 s that receives no further
\* request is eventually removed from the table by the reaper.
C15_IdleSessionReaped ==
  \A a \in {1, 2} :
     (a \in sessions /\ session_obj[a].expired /\ ~ RequestPending(a))
        ~> (a \notin sessions \/ RequestPending(a))

\* ------------------------------------------------------ shutdown
\* start_server: server.await returns and tx_terminator.send(true) puts the
\* value in the oneshot channel whose receiver the reaper owns.  Connections
\* already accepted keep their tasks.
ServerExit ==
  /\ ~ reaper.rx
  /\ reaper' = [reaper EXCEPT !.rx = TRUE]
  /\ UNCHANGED << config, call, remote_nodes, node_init, services, ports, sessions, session_obj,
                  next_id, state_readers, state_writer, pm_writer, groups_writer, mutex, h >>

\* process_session_timeout: rx.try_recv() yields the value at the head of
\* the loop and the function returns.
ReaperExit ==
  /\ reaper.pc = "r_sleep"
  /\ reaper.rx
  /\ reaper' = [reaper EXCEPT !.pc = "r_exit"]
  /\ UNCHANGED << config, call, remote_nodes, node_init, services, ports, sessions, session_obj,
                  next_id, state_readers, state_writer, pm_writer, groups_writer, mutex, h >>

ShutdownNext ==
  \/ Next
  \/ ServerExit
  \/ ReaperExit

\* The server with its exit, under the fair scheduling of the runtime.
ShutdownSpec ==
  /\ Init /\ [][ShutdownNext]_vars
  /\ WF_vars(\/ ReaperScanBegin
             \/ \E id \in DOMAIN mutex : ReaperScanSession(id)
             \/ ReaperStateWrite
             \/ \E id \in DOMAIN mutex : ReaperRemove(id)
             \/ ReaperDeleteSession
             \/ ReaperExit)
  /\ WF_vars(\/ \E ok \in BOOLEAN : NodeInitFetched(ok)
             \/ NodeInitUpdate
             \/ NodeInitWake)
  /\ \A t \in Handlers :
       WF_vars(\/ Reserve(t)
               \/ \E out \in SessionCreateOutcomes : SessionCreated(t, out)
               \/ AddSessionToPool(t)
               \/ Rollback(t)
               \/ NodeSnapshot(t)
               \/ \E ok \in BOOLEAN : NodeSessionCreated(t, ok)
               \/ LockSession(t)
               \/ \E out \in ForwardOutcomes : Forwarded(t, out)
               \/ DeleteFromPool(t)
               \/ Teardown(t))

\* ------------------------------------------------------ client disconnect
\* The client of a request in progress disconnects: the server drops the
\* future of handle at the await it is suspended at.  Its guards are
\* dropped with it (state.read(), a session's mutex); nothing else runs.
Cancel(t) ==
  /\ h[t].pc \notin {"idle", "done"}
  /\ h' = [h EXCEPT ![t] = Finish(t, "Cancelled")]
  /\ state_readers' = DropStateRead(t)
  /\ mutex' = [i \in DOMAIN mutex |-> IF mutex[i] = t THEN NoTask ELSE mutex[i]]
  /\ UNCHANGED << config, call, remote_nodes, node_init, services, ports, sessions, session_obj,
                  next_id, state_writer, pm_writer, groups_writer, reaper >>

CancelNext ==
  \/ Next
  \/ \E t \in DOMAIN h : Cancel(t)

\* The program with clients that may disconnect.
CancelSpec == Init /\ [][CancelNext]_vars

\* C16: a reservation never leaks: an id in a service's set that is not in
\* the table is in the hands of a task that goes on to register it or to
\* remove it: its create request (before the handshake's end, at
\* add_session, at the rollback), a terminal delete at its teardown, or the
\* reaper's removal loop.
C16_NoLeakedReservation ==
  \A g \in DOMAIN services : \A id \in GroupIds(g) :
     \/ id \in sessions
     \/ \E t \in DOMAIN h :
           h[t].id = id /\ h[t].pc \in {"c_create", "c_add", "c_rollback", "d_teardown"}
     \/ reaper.pc = "r_remove" /\ reaper.cur = id

\* C17: DELETE /session/{id} for an id that is not in the table is answered
\* SessionNotFound at once, with no request to a backend, and leaves the
\* table, the services with their session sets and the port manager as
\* they were.
C17_DeleteUnknownIsFramed ==
  [][\A t \in DOMAIN h :
       (h[t].pc = "idle" /\ h'[t].pc # "idle" /\ h'[t].del /\ h'[t].id \notin sessions)
         => /\ h'[t].pc = "done"
            /\ h'[t].res = "RespondWith:SessionNotFound"
            /\ Respond(h'[t].res).kind = "SessionNotFound"
            /\ UNCHANGED << sessions, services, ports, session_obj, mutex >>]_vars

\* A terminal delete for an id that was minted and is no longer (or never
\* was) in the table has been answered.
C17_Witness ==
  \E t \in DOMAIN h :
     /\ h[t].pc = "done" /\ h[t].del /\ h[t].res = "RespondWith:SessionNotFound"
     /\ h[t].id \notin sessions

\* C18: for every successful creation, local or remote, the response
\* returned to the client carries the Xenon-minted id under which the
\* session has just been registered, both as sessionId and as
\* value.sessionId, and has the status of the backend's answer.
C18_ResponseCarriesXenonId ==
  [][\A t \in DOMAIN h :
       (h[t].pc # "done" /\ h'[t].pc = "done" /\ h'[t].res = "Created")
         => /\ h'[t].id \in sessions'
            /\ h'[t].id \notin sessions
            /\ h'[t].resp.sessionId = h'[t].id
            /\ h'[t].resp.value.sessionId = h'[t].id
            /\ h'[t].resp.status = h'[t].upstream.status
            /\ h'[t].upstream \in UpstreamResponses]_vars

\* A local and a remote creation have been answered, one from a backend
\* answer with the id at the top level, one with the id under value.
C18_Witness ==
  \E t \in DOMAIN h : \E u \in DOMAIN h :
     /\ h[t].pc = "done" /\ h[t].res = "Created" /\ h[t].group # None
     /\ h[u].pc = "done" /\ h[u].res = "Created" /\ h[u].group = None
     /\ h[t].upstream.sessionId # h[u].upstream.sessionId

\* C19: remote nodes are attempted only after the local attempt ended with
\* RespondWith NoMatchingBrowser or NoSessionsAvailable; when the remote
\* attempt fails, a local NoSessionsAvailable is what the client gets
\* (also when the remote verdict is NoMatchingBrowser), and after a local
\* NoMatchingBrowser the client gets the remote verdict; a local success
\* or any other local error is returned from the local positions.
C19_RemoteAfterLocalVerdict ==
  [][\A t \in DOMAIN h :
       LET remote_pcs == {"n_snapshot", "n_create", "n_add"}
           matched_caps == IF h[t].pc = "n_snapshot"
                           THEN MatchedCaps(remote_nodes, h[t].caps)
                           ELSE h[t].matched
       IN /\ (h[t].pc \notin remote_pcs /\ h'[t].pc \in remote_pcs)
               => /\ h'[t].pc = "n_snapshot"
                  /\ h'[t].verdict \in {"RespondWith:NoMatchingBrowser",
                                        "RespondWith:NoSessionsAvailable"}
          /\ (h[t].pc \in {"n_snapshot", "n_create"} /\ h'[t].pc = "done")
               => h'[t].res =
                    IF h[t].verdict = "RespondWith:NoSessionsAvailable" \/ matched_caps
                    THEN "RespondWith:NoSessionsAvailable"
                    ELSE "RespondWith:NoMatchingBrowser"
          /\ (h[t].pc \notin remote_pcs \cup {"done"} /\ h'[t].pc = "done")
               => h'[t].matched = FALSE /\ h'[t].res # "RespondWith:NoMatchingBrowser"]_vars

\* A request that matched a full local group and no remote group has been
\* answered NoSessionsAvailable after the remote verdict NoMatchingBrowser.
C19_Witness ==
  \E t \in DOMAIN h : /\ h[t].pc = "done"
                       /\ h[t].res = "RespondWith:NoSessionsAvailable"
                       /\ ToLowercase(h[t].caps.browser_name) = "firefox"
                       /\ ~ MatchedCaps(remote_nodes, h[t].caps)

\* C20: every request gets a response: a handler that has started returns,
\* and the router answers its result, a RespondWith error with its mapped
\* status and any other error as InternalServerError with status 500.
C20_EveryRequestAnswered ==
  \A t \in PoolHandlers :
     (h[t].pc \notin {"idle", "done"})
        ~> (h[t].pc = "done" /\ Respond(h[t].res).status \in {200, 404, 500})

C22_EveryPortAbove1024 ==
  (call.fn = "parse_port_list" /\ call.done) =>
     /\ \A i \in DOMAIN call.out : call.out[i] > 1024
     /\ \A i \in DOMAIN call.port_ranges :
          LET range == call.port_ranges[i]
          IN (\E j \in DOMAIN range : range[j].digits /\ range[j].val <= 1024) =>
                ~ \E k \in DOMAIN call.out :
                     \E j \in DOMAIN range : call.out[k] = range[j].val


C24_TasksTerminateAfterShutdown ==
  reaper.rx ~> (reaper.pc = "r_exit" /\ node_init.pc = "i_done")


\* C25: the steps that create a remote session (service_group None), that
\* delete one by a terminal DELETE and that reap one leave the services and
\* session sets of every local group and the port manager as they are; the
\* step that registers it adds its id to the sessions table and the steps
\* that remove it take the id out.
C25_RemoteSessionFrame ==
  [][ /\ \A t \in DOMAIN h :
           (h'[t] # h[t] /\
            \/ h[t].pc \in {"n_snapshot", "n_create", "n_add"}
            \/ /\ h[t].del
               /\ h[t].pc \in {"f_mutex", "f_http", "d_state_write", "d_teardown"}
               /\ session_obj[h[t].id].service_group = None)
           => /\ UNCHANGED << services, ports >>
              /\ h[t].pc = "n_add" => sessions' = sessions \cup {h[t].id}
              /\ h[t].pc = "d_state_write" => sessions' = sessions \ {h[t].id}
      /\ (reaper' # reaper /\ reaper.pc = "r_remove" /\
          (reaper.cur # NoId => session_obj[reaper.cur].service_group = None))
           => UNCHANGED << services, ports >>
    ]_vars

\* A remote session has been created and, while a port was taken, the
\* reaper has removed it from the table.
C25_Witness ==
  \E id \in DOMAIN session_obj :
     /\ session_obj[id].created /\ session_obj[id].service_group = None
     /\ session_obj[id].expired /\ id \notin sessions
     /\ reaper.pc = "r_sleep"
     /\ \E p \in DOMAIN ports : ports[p] = "Taken"
     /\ \E t \in DOMAIN h : h[t].id = id /\ h[t].pc = "done" /\ h[t].res = "Created"


\* C26: no two WebDriverServices, of one group or of two, are bound to the
\* same port, and the port of every service is Taken; a port becomes Taken
\* only from Available, and Available again only in a step that removes the
\* service bound to it.
C26_PortExclusive ==
  /\ [](\A g1, g2 \in DOMAIN services :
           /\ g1 # g2 => (DOMAIN services[g1]) \cap (DOMAIN services[g2]) = {}
           /\ \A p \in DOMAIN services[g1] : ports[p] = "Taken")
  /\ [][ \A p \in DOMAIN ports :
           /\ (\E g \in DOMAIN services : p \in (DOMAIN services'[g]) \ (DOMAIN services[g]))
                => ports[p] = "Available" /\ ports'[p] = "Taken"
           /\ (ports[p] = "Taken" /\ ports'[p] = "Available")
                => \E g \in DOMAIN services :
                      p \in (DOMAIN services[g]) \ (DOMAIN services'[g])
       ]_vars

\* Two groups each run a driver, on two ports, both Taken.
C26_Witness ==
  \E g1, g2 \in DOMAIN services :
     /\ g1 # g2
     /\ \E p1 \in DOMAIN services[g1], p2 \in DOMAIN services[g2] :
           p1 # p2 /\ ports[p1] = "Taken" /\ ports[p2] = "Taken"


\* C27: a request to /wd/hub/session... is handled as the same request to
\* /session...: handle_session decides the same for both, a POST starts the
\* creation of a session and answers 404 with NoMatchingBrowser when no
\* browser matches, any other request goes to the session the /session path
\* names, and a DELETE of /wd/hub/session/{id} is a terminal delete.
C27_WdHubLikeSession ==
  /\ [](LET session_path == SubSeq(call.path, 3, Len(call.path))
        IN (Len(call.path) > 2 /\ SubSeq(call.path, 1, 3) = << "wd", "hub", "session" >>) =>
             /\ HandleSession(call.method, call.path, TRUE)
                  = HandleSession(call.method, session_path, FALSE)
             /\ \A t \in DOMAIN h :
                  (h[t].pc = "done" /\ h[t].res = "RespondWith:NoMatchingBrowser")
                     => /\ call.method = "POST" /\ session_path = << "session" >>
                        /\ Respond(h[t].res).status = 404)
  /\ [][ LET session_path == SubSeq(call.path, 3, Len(call.path))
             r == HandleSession(call.method, session_path, FALSE)
         IN \A t \in DOMAIN h :
              (/\ Len(call.path) > 2
               /\ SubSeq(call.path, 1, 3) = << "wd", "hub", "session" >>
               /\ h[t].pc = "idle" /\ h'[t].pc # "idle") =>
                 /\ r.kind = "create" <=> h'[t].pc \in {"c_pair", "n_snapshot"}
                 /\ r.kind = "forward" <=>
                      \/ h'[t].pc = "f_mutex"
                      \/ h'[t].pc = "done" /\ h'[t].res = "RespondWith:SessionNotFound"
                 /\ r.kind = "forward" =>
                      /\ h'[t].id = r.id
                      /\ h'[t].del = (call.method = "DELETE" /\ Len(session_path) = 2)
                 /\ r.kind = "MethodNotFound" <=>
                      (h'[t].pc = "done" /\ h'[t].res = "RespondWith:MethodNotFound")
       ]_vars

\* POST /wd/hub/session for a browser nobody offers has been answered with
\* NoMatchingBrowser.
C27_Witness ==
  /\ call.fn = "handle" /\ call.method = "POST"
  /\ call.path = << "wd", "hub", "session" >>
  /\ \E t \in DOMAIN h :
        /\ h[t].pc = "done" /\ h[t].res = "RespondWith:NoMatchingBrowser"
        /\ Respond(h[t].res).status = 404


\* C30: the answer to a forwarded request starts the teardown exactly when
\* the method is DELETE, the path without /wd/hub has exactly two segments,
\* the first is "session", and the backend answered with success; after any
\* other answer, path or method the handler's step leaves the sessions
\* table, the groups' services and session sets and the port manager as
\* they are, and the handler starts no teardown later.
C30_TeardownOnlyOnTerminalDelete ==
  [][ LET path_elements == IF call.path[1] = "wd" /\ Len(call.path) > 2
                              /\ call.path[2] = "hub"
                           THEN SubSeq(call.path, 3, Len(call.path)) ELSE call.path
          terminal == /\ call.method = "DELETE"
                      /\ Len(path_elements) = 2
                      /\ path_elements[1] = "session"
      IN \A t \in DOMAIN h :
           /\ (h[t].pc = "f_http" /\ h'[t] # h[t]) =>
                /\ h'[t].pc = "d_state_write" => terminal
                /\ terminal => \/ h'[t].pc = "d_state_write"
                               \/ /\ h'[t].pc = "done"
                                  /\ h'[t].res \in {"ForwardedNon2xx", "RequestError"}
                /\ h'[t].pc # "d_state_write" =>
                     /\ UNCHANGED << sessions, services, ports >>
                     /\ h'[t].pc = "done"
           /\ (h'[t] # h[t] /\ h'[t].pc \in {"d_state_write", "d_teardown"}) =>
                terminal /\ h[t].pc \in {"f_http", "d_state_write"}
    ]_vars

\* DELETE /wd/hub/session/1 has been answered with success and the session
\* is gone from the table and from its group, its port Available again.
C30_Witness ==
  /\ call.fn = "handle" /\ call.method = "DELETE"
  /\ call.path = << "wd", "hub", "session", "1" >>
  /\ \E t \in DOMAIN h : h[t].pc = "done" /\ h[t].del /\ h[t].id = 1
                         /\ h[t].res = "Forwarded2xx"
  /\ 1 \notin sessions
  /\ 1 \notin DOMAIN services["firefox"]
  /\ ports[1] = "Available"


\* C28: the backend session id Session::create stores is value.sessionId of
\* the handshake answer when that is not empty and the top-level sessionId
\* otherwise, and it is the id in the path of a request forwarded later.
C28_ValueSessionIdPreferred ==
  (call.fn = "create" /\ call.pc \in {"created", "returned"} /\ call.err = None) =>
     LET id == IF call.resp.value.session_id # "" THEN call.resp.value.session_id
               ELSE call.resp.session_id
     IN /\ call.session_id = id
        /\ call.pc = "returned" => call.path_and_query[2] = id

\* C29: Session::create sends GET /status at most 30 times, and when it
\* returns the timeout error it has sent 30 probes and no POST /session.
C29_AtMostThirtyProbes ==
  call.fn = "create" =>
     /\ call.probes <= 30
     /\ call.err = "ErrorCreatingSession:Timed out waiting for WebDriver"
          => call.probes = 30 /\ call.posts = 0


\* C31: with the group's total below max_sessions, get_or_start_service
\* returns an existing service whose session count is minimal among the
\* services with fewer than sessions_per_driver sessions when there is one,
\* changing nothing; only when every service is full does it lock a port
\* and spawn a service there, and with no port Available it returns the
\* NoSessionsAvailable response.
C31_LeastLoadedOrNewService ==
  (call.fn = "get_or_start_service" /\ call.done
   /\ TotalSessions(call.svcs) < call.browser.max_sessions) =>
     LET svcs == call.svcs
         open == { p \in DOMAIN svcs :
                     Cardinality(svcs[p]) < call.browser.sessions_per_driver }
     IN /\ call.out # {}
        /\ \A o \in call.out :
             IF open # {}
             THEN /\ o.err = "ok" /\ o.port \in open
                  /\ \A q \in open : Cardinality(svcs[o.port]) <= Cardinality(svcs[q])
                  /\ o.svcs = svcs /\ o.pm = call.pm
             ELSE IF \A p \in DOMAIN call.pm : call.pm[p] # "Available"
             THEN /\ o.err = "RespondWith:NoSessionsAvailable"
                  /\ o.svcs = svcs /\ o.pm = call.pm
             ELSE \E p \in DOMAIN call.pm :
                     /\ call.pm[p] = "Available"
                     /\ o.pm = [call.pm EXCEPT ![p] = "Taken"]
                     /\ IF call.spawn_ok
                        THEN /\ o.err = "ok" /\ o.port = p
                             /\ DOMAIN o.svcs = DOMAIN svcs \cup {p} /\ o.svcs[p] = {}
                             /\ \A q \in DOMAIN svcs : o.svcs[q] = svcs[q]
                        ELSE o.err = "IOError" /\ o.svcs = svcs

\* A group with a service of one session and a service of none, both below
\* sessions_per_driver, has been asked, and the empty one was returned.
C31_Witness ==
  /\ call.fn = "get_or_start_service" /\ call.done
  /\ call.browser.sessions_per_driver = 2 /\ call.browser.max_sessions = 4
  /\ DOMAIN call.svcs = {1, 2}
  /\ Cardinality(call.svcs[1]) = 1 /\ call.svcs[2] = {}
  /\ \A o \in call.out : o.port = 2


\* C32: delete_session takes the id out of the service on the port and
\* removes that service exactly when its session set is empty then; the
\* child is killed before the port is unlocked, and the port is unlocked
\* also when the kill fails; with no service on the port, or sessions left,
\* the services and the ports are as before.  Hence a group without an
\* empty service has none after the call.
C32_DeleteSessionRemovesEmptyService ==
  (call.fn = "delete_session" /\ call.done) =>
     LET svcs == call.svcs
         p == call.port
         o == call.out
     IN IF p \notin DOMAIN svcs
        THEN o.svcs = svcs /\ o.pm = call.pm /\ call.events = << >>
        ELSE IF svcs[p] \ {call.id} # {}
        THEN /\ DOMAIN o.svcs = DOMAIN svcs
             /\ o.svcs[p] = svcs[p] \ {call.id}
             /\ \A q \in DOMAIN svcs \ {p} : o.svcs[q] = svcs[q]
             /\ o.pm = call.pm /\ call.events = << >>
             /\ (\A q \in DOMAIN svcs : svcs[q] # {})
                   => \A q \in DOMAIN o.svcs : o.svcs[q] # {}
        ELSE /\ DOMAIN o.svcs = DOMAIN svcs \ {p}
             /\ \A q \in DOMAIN o.svcs : o.svcs[q] = svcs[q]
             /\ o.pm = [call.pm EXCEPT ![p] = "Available"]
             /\ Len(call.events) = 2
             /\ call.events[1] \in {"kill", "kill failed"}
             /\ call.events[2] = "unlock_port"
             /\ (\A q \in DOMAIN svcs : svcs[q] # {})
                   => \A q \in DOMAIN o.svcs : o.svcs[q] # {}

\* The last session of a service has been deleted while the kill of its
\* child failed: the service is gone and its port Available, the other
\* service as it was.
C32_Witness ==
  /\ call.fn = "delete_session" /\ call.done /\ ~ call.kill_ok
  /\ DOMAIN call.svcs = {1, 2} /\ call.svcs[1] = {11} /\ call.svcs[2] = {21}
  /\ call.port = 1 /\ call.id = 11
  /\ DOMAIN call.out.svcs = {2} /\ call.out.pm[1] = "Available"
  /\ call.events = << "kill failed", "unlock_port" >>


\* C33: the loop of a local reservation goes through the candidate groups
\* in their order and reserves on the first where get_or_start_service
\* succeeds: the new id is in that group's service and in no other, the
\* groups before it got no id and the groups after it are untouched; when
\* no group succeeds, the error returned is one get_or_start_service gives
\* on the first candidate, and no group got an id.
C33_FirstGroupThatSucceeds ==
  [][ \A t \in DOMAIN h :
        (h[t].pc = "c_pair" /\ h'[t].pc # "c_pair") =>
          LET cand == h[t].cand
              Before(g) == UNION { services[g][p] : p \in DOMAIN services[g] }
              After(g) == UNION { services'[g][p] : p \in DOMAIN services'[g] }
              FirstOutcomes ==
                UNION { GetOrStartService(GroupBrowser(config, cand[1]),
                                          services[cand[1]], ports, ok) : ok \in BOOLEAN }
          IN /\ cand # << >>
             /\ \A g \in DOMAIN services :
                  g \notin { cand[i] : i \in DOMAIN cand } => services'[g] = services[g]
             /\ IF h'[t].pc = "c_create"
                THEN \E i \in DOMAIN cand :
                       /\ h'[t].group = cand[i]
                       /\ After(cand[i]) = Before(cand[i]) \cup {h'[t].id}
                       /\ h'[t].id \notin Before(cand[i])
                       /\ h'[t].id \in services'[cand[i]][h'[t].port]
                       /\ \A j \in 1..(i - 1) : After(cand[j]) = Before(cand[j])
                       /\ \A j \in (i + 1)..Len(cand) :
                             services'[cand[j]] = services[cand[j]]
                       /\ i > 1 => \E o \in FirstOutcomes : o.err # "ok"
                ELSE /\ \A g \in DOMAIN services : After(g) = Before(g)
                     /\ \E o \in FirstOutcomes :
                          /\ o.err # "ok"
                          /\ o.err = IF h'[t].pc = "n_snapshot" THEN h'[t].verdict
                                     ELSE h'[t].res
    ]_vars

\* A request that two groups matched holds a reservation on the second,
\* the first being left without a session and with no service.
C33_Witness ==
  \E t \in DOMAIN h :
     /\ h[t].pc = "c_create"
     /\ Len(GroupOrder(config)) = 2
     /\ h[t].group = GroupOrder(config)[2]
     /\ MatchesCapabilities(GroupBrowser(config, GroupOrder(config)[1]), h[t].caps)
     /\ DOMAIN services[GroupOrder(config)[1]] = {}
     /\ h[t].id \in services[h[t].group][h[t].port]


\* C34: handle_create_session_node tries only nodes with a matching group
\* that has remaining sessions, in node order, and adds one session to the
\* table at the first of them where Session::create succeeds; when no
\* attempt succeeds it returns NoSessionsAvailable if some node has a
\* matching group and NoMatchingBrowser otherwise, the table unchanged.
C34_FirstNodeThatSucceeds ==
  (call.fn = "handle_create_session_node" /\ call.done) =>
     LET Matching(i) == { j \in DOMAIN call.nodes[i].service_groups :
                            call.nodes[i].service_groups[j].browser.name = "chrome" }
         Eligible == { i \in DOMAIN call.nodes :
                         \E j \in Matching(i) :
                            call.nodes[i].service_groups[j].remaining_sessions > 0 }
         Winners == { i \in Eligible : call.create[i] = "ok" }
         Tried == { call.tried[k] : k \in DOMAIN call.tried }
     IN /\ Tried \subseteq Eligible
        /\ \A k, m \in DOMAIN call.tried : k < m => call.tried[k] <= call.tried[m]
        /\ IF Winners # {}
           THEN /\ call.err = None
                /\ call.sessions = {1, call.xsession_id}
                /\ \A w \in Winners : call.tried[Len(call.tried)] <= w
                /\ call.tried[Len(call.tried)] \in Winners
                /\ \A i \in Eligible : i <= call.tried[Len(call.tried)] => i \in Tried
           ELSE /\ call.sessions = {1}
                /\ Tried = Eligible
                /\ call.err = IF \E i \in DOMAIN call.nodes : Matching(i) # {}
                              THEN "RespondWith:NoSessionsAvailable"
                              ELSE "RespondWith:NoMatchingBrowser"

\* The first node answered the handshake with an error status and the
\* session was registered at the second.
C34_Witness ==
  /\ call.fn = "handle_create_session_node" /\ call.done
  /\ call.create = << "ResponsePassThrough", "ok" >>
  /\ call.tried = << 1, 2 >>
  /\ call.sessions = {1, 2} /\ call.err = None


C36_UpdateTakesIncomingValues ==
  (call.fn = "update" /\ call.done) =>
     IF call.a.comms_id > call.node.comms_id /\ ParseUrl(call.a.url).ok
     THEN /\ call.after_a.comms_id = call.a.comms_id
          /\ call.after_a.name = call.a.name
          /\ call.after_a.service_groups = call.a.service_groups
          /\ call.after_a.scheme = ParseUrl(call.a.url).scheme
          /\ call.after_a.authority = ParseUrl(call.a.url).authority
          /\ call.after_a.url = call.a.url
     ELSE call.after_a = call.node

C38_RemovedOnlyWhenIdle ==
  [][ \A id \in sessions \ sessions' :
         reaper.pc = "r_remove" => session_obj[id].expired ]_vars


\* C39: after a session left the sessions table, by a terminal delete or by
\* the reaper, no handler forwards a request to its backend, the handlers
\* that looked it up before the removal and waited for its mutex included.
C39_NoForwardAfterRemoval ==
  [][ \A t \in DOMAIN h :
         (h[t].pc = "f_mutex" /\ h'[t].pc = "f_http") => h[t].id \in sessions ]_vars


\* C40: XenonState::new makes one service group for every configured
\* browser entry, in the order of the configuration, also when two entries
\* have the same name: the i-th group is the one of the i-th entry, with
\* its version and its max_sessions.
C40_OneGroupPerBrowserEntry ==
  (call.fn = "state_new" /\ call.done) =>
     /\ Len(call.group_order) = Len(call.config)
     /\ \A i \in 1..Len(call.config) :
           /\ call.group_order[i] = call.config[i].name
           /\ call.groups[call.group_order[i]] = call.config[i]

====
